---- MODULE Spec2Model ----
(***************************************************************************)
(* MessageCollector (structures/MessageCollector.js): a listener on the    *)
(* client's messageCreate stream, scoped to one chat, bounded by max,      *)
(* time and idle.  One collector, its client, the runtime's timers and     *)
(* the continuations of its async handler are modelled.  Timer durations   *)
(* are abstract: a pending timer may expire at any later moment.           *)
(***************************************************************************)
EXTENDS Integers, Sequences, FiniteSets, TLC

\* ---------------------------------------------------------------- bounds
MaxMsgs      == 2      \* messageCreate events raised by the client
MaxMax       == 2      \* largest options.max
MaxStops     == 2      \* explicit stop() calls by the owner
ScenarioMsgs == 4      \* messageCreate events of the max=2 scenario
FairMsgs     == 1      \* messageCreate events under the fair event loop
AwaitMsgs    == 2      \* messageCreate events while a message is awaited
PairMsgs     == 1      \* messageCreate events seen by two collectors
MaxModules   == 2      \* modules loaded by ModuleManager
MaxRuns      == 2      \* processMessage calls
ModuleMsgs   == 2      \* messageCreate events while ChatModule runs
MaxCommands  == 3      \* .collect and .stopcollect commands handled
MaxEvents    == 3      \* realtime and FBNS events that reach the client
MaxLogins    == 2      \* login() calls
MaxRetries   == 2      \* options.maxRetries
MaxDrops     == 3      \* realtime error and close events
MaxTyping    == 3      \* startTyping calls on a chat
MaxSends     == 2      \* sendMessage calls on a chat
MaxCreates   == 3      \* Message objects created from the realtime stream

\* ---------------------------------------------------------------- values
TargetChat   == "chatA"
Chats        == {"chatA", "chatB"}
Bodies       == {"hi", "hello"}
Channels     == {"collect", "end", "error"}
\* the owner's subscriptions: none, those of ChatModule.handleCollect, all
ListenerSets == {{}, {"collect", "end"}, Channels}
UserReasons  == {"manual"}

\* options.filter: absent, a synchronous content predicate, a predicate that
\* throws, an async predicate that rejects, an async content predicate
FilterKinds  == {"default", "hello", "throws", "rejects", "asyncHello"}
AsyncKinds   == {"rejects", "asyncHello"}
ContentKinds == {"hello", "asyncHello"}

NullCollection == [isNull |-> TRUE,  items |-> <<>>]
NewCollection  == [isNull |-> FALSE, items |-> <<>>]
NoMsg          == [id |-> 0, chatId |-> "", body |-> "", rev |-> 0, ev |-> 0]

\* no accessor call yet
NoAccess   == [op |-> "", fn |-> "", out |-> "", val |-> <<>>]
\* ModuleManager before loadModules
\* the value undefined where a message object is expected
Undefined  == [ref |-> 0, tags |-> {}]
\* ModuleManager before loadModules: modules = [], no processMessage running
NoPipeline == [modules |-> <<>>, at |-> 0, message |-> Undefined,
               calls |-> <<>>, objects |-> 0, runs |-> 0,
               result |-> Undefined,
               commands |-> <<>>, cleanups |-> <<>>,
               registry |-> [isNull |-> TRUE, entries |-> <<>>],
               cleaning |-> 0, cleaned |-> <<>>]
\* a Chat after its constructor: not typing, no timer armed, no message
\* cached and no sendMessage promise stored; handle 0 stands for null
NoChat     == [typing |-> FALSE, starts |-> 0,
               stopTypingTimeout |-> 0, keepTypingAliveInterval |-> 0,
               timeouts |-> {}, intervals |-> {}, nHandles |-> 0,
               nTyping |-> 0,
               sends |-> <<>>, messages |-> {}, created |-> 0,
               sentMessagePromises |-> {}]
\* InstagramClient after its constructor
NoClient   == [ready |-> FALSE, running |-> FALSE,
               maxRetries |-> MaxRetries, autoReconnect |-> TRUE,
               login |-> "none", nLogins |-> 0, handlers |-> {},
               eventsToReplay |-> <<>>, processed |-> <<>>, nArrived |-> 0,
               retryCount |-> 0, reconnects |-> <<>>, nDrops |-> 0,
               chat |-> NoChat]

VARIABLES
  collector,    \* the MessageCollector's fields
  listeners,    \* channels of the collector that have a subscriber
  subscribed,   \* _handleMessage is among the client's messageCreate listeners
  timers,       \* the runtime's pending timers
  nTimers,      \* timer handles handed out by setTimeout
  pending,      \* _handleMessage invocations suspended at `await this.filter`
  initPending,  \* init() calls suspended at `await import`
  signals,      \* every emit() of the collector, in order
  seen,         \* the messages raised so far, by message id
  budget,       \* messageCreate events the client will raise
  nEvents,      \* messageCreate events raised
  evaluated,    \* filter calls made
  nStops,       \* explicit stop() calls made
  nInits,       \* init() calls made
  syncEmits,    \* every messageCreate so far was raised before any resume
  awaiter,      \* the promise, listeners and timer of an awaitMessage call
  other,        \* a second collector created on the same chat, if any
  otherPending, \* its _handleMessage invocations suspended at the await
  access,       \* the latest accessor call on the collector and its outcome
  activeCollectors, \* ChatModule.activeCollectors, for the target chat
  nHandled,     \* ChatModule command handlers and cleanup calls run
  pipeline,     \* ModuleManager: the loaded modules and a processMessage run
  client        \* InstagramClient: login, replay queue, reconnects, a Chat

vars == <<collector, listeners, subscribed, timers, nTimers, pending,
          initPending, signals, seen, budget, nEvents, evaluated, nStops,
          nInits, syncEmits, awaiter, other, otherPending, access,
          activeCollectors, nHandled, pipeline, client>>

\* what no operation of a collector touches
apart == <<access, nHandled, pipeline, client>>

env == <<pending, initPending, seen, budget, nEvents, evaluated, nStops,
         nInits, syncEmits, other, otherPending, apart>>

\* ------------------------------------------------------------ Collection
\* Collection extends Map: set() on a present key replaces the value and
\* keeps the position, on an absent key appends.
RECURSIVE IndexOf(_, _, _)
IndexOf(items, id, i) ==
  IF i > Len(items) THEN 0
  ELSE IF items[i].id = id THEN i ELSE IndexOf(items, id, i + 1)

CollectionSet(items, m) ==
  LET i == IndexOf(items, m.id, 1)
  IN  IF i = 0 THEN Append(items, m) ELSE [items EXCEPT ![i] = m]

Size(col) == Len(col.items)

\* ------------------------------------------------- EventEmitter, timers
NumOn(sig, ch) == Cardinality({k \in 1..Len(sig) : sig[k].ch = ch})

\* emit(): listeners run synchronously; emit('error') without a listener
\* throws (heard = FALSE on channel error).
Signal(ch, m, payload, reason, heard) ==
  [ch |-> ch, msg |-> m, payload |-> payload, reason |-> reason,
   heard |-> heard]

Emit(w, ch, m, payload, reason) ==
  [w EXCEPT !.sig = Append(@, Signal(ch, m, payload, reason, ch \in w.lis))]

\* setTimeout(fn): a new handle; gen is the number of collect signals
\* emitted when the timer was armed
SetTimeout(w, fn) ==
  [w EXCEPT !.nt = @ + 1,
            !.tm = @ \cup {[h |-> w.nt + 1, fn |-> fn,
                            gen |-> NumOn(w.sig, "collect")]}]

\* a clearTimeout that cancels every pending timer
ClearTimeout_All(w, h) ==
  [w EXCEPT !.tm = {}]

\* clearTimeout(h): no effect on a handle that expired or was cleared
ClearTimeout(w, h) ==
  [w EXCEPT !.tm = {t \in @ : t.h # h}]

\* ---------------------------------------------------------- awaitMessage
\* options.filter of awaitMessage: absent, or a predicate on the content
OneOffKinds == {"any", "hello"}
AwaitOptions == [time : BOOLEAN, filter : OneOffKinds]

OneOff(kind, m) == kind = "any" \/ m.body = "hello"

\* no awaitMessage call was made.  state is the promise's; listening: the
\* onCollect and onEnd listeners are registered; timeout: the call's timer;
\* at, had: the number of signals emitted and the collected messages at the
\* call; done: the number of signals emitted when the promise settled
NoAwaiter ==
  [state |-> "none", listening |-> FALSE, timeout |-> "none",
   filter |-> "any", msg |-> NoMsg, why |-> "", at |-> 0, had |-> {},
   done |-> 0]

\* resolve(message) / reject(error) of a promise: no effect once settled
Settle(aw, state, m, why, n) ==
  IF aw.state # "waiting" THEN aw
  ELSE [aw EXCEPT !.state = state, !.msg = m, !.why = why, !.done = n]

\* if (timeout) clearTimeout(timeout); removeListener x 2
Detach(aw) ==
  [aw EXCEPT !.timeout = IF @ = "pending" THEN "cleared" ELSE @,
             !.listening = FALSE]

\* an onCollect that does not apply the call's filter
OnCollect_NoFilter(aw, m, n) ==
  Settle(Detach(aw), "resolved", m, "", n)

\* onCollect(message)
OnCollect(aw, m, n) ==
  IF OneOff(aw.filter, m) THEN Settle(Detach(aw), "resolved", m, "", n)
  ELSE aw

\* onEnd()
OnEnd(aw, n) == Settle(Detach(aw), "rejected", NoMsg, "ended", n)

\* the awaiter's listeners run inside emit(); sig[from..] are the signals
\* emitted by the step
RECURSIVE Notify(_, _, _)
Notify(aw, sig, from) ==
  IF from > Len(sig) THEN aw
  ELSE LET s  == sig[from]
           a1 == IF ~aw.listening THEN aw
                 ELSE IF s.ch = "collect" THEN OnCollect(aw, s.msg, from)
                 ELSE IF s.ch = "end" THEN OnEnd(aw, from)
                 ELSE aw
       IN  Notify(a1, sig, from + 1)

\* ------------------------------------------------------------- collector
World ==
  [c |-> collector, lis |-> listeners, sub |-> subscribed,
   sig |-> signals, tm |-> timers, nt |-> nTimers]

\* _resetIdleTimeout that leaves the previous timer pending
ResetIdleTimeout_NoClear(w) ==
  LET w2 == SetTimeout(w, "idle")
  IN  [w2 EXCEPT !.c.timeouts.idle = w2.nt]

\* _resetIdleTimeout that cancels the time timer in place of the idle one
ResetIdleTimeout_ClearTime(w) ==
  LET w1 == IF w.c.timeouts.time # 0
            THEN ClearTimeout(w, w.c.timeouts.time) ELSE w
      w2 == SetTimeout(w1, "idle")
  IN  [w2 EXCEPT !.c.timeouts.idle = w2.nt]

\* _resetIdleTimeout whose callback stops with the reason of the time timer
ResetIdleTimeout_AsTime(w) ==
  LET w1 == IF w.c.timeouts.idle # 0
            THEN ClearTimeout(w, w.c.timeouts.idle) ELSE w
      w2 == SetTimeout(w1, "time")
  IN  [w2 EXCEPT !.c.timeouts.idle = w2.nt]

\* _resetIdleTimeout
ResetIdleTimeout(w) ==
  LET w1 == IF w.c.timeouts.idle # 0
            THEN ClearTimeout(w, w.c.timeouts.idle) ELSE w
      w2 == SetTimeout(w1, "idle")
  IN  [w2 EXCEPT !.c.timeouts.idle = w2.nt]

\* a constructor that arms no time timer
ArmTimeTimeout_Never(w) == w

\* a constructor that arms the time timer whether or not time is set
ArmTimeTimeout_Always(w) ==
  LET x == SetTimeout(w, "time")
  IN  [x EXCEPT !.c.timeouts.time = x.nt]

\* constructor: if (this.time) this._timeouts.time = setTimeout(...)
ArmTimeTimeout(w) ==
  IF w.c.time
  THEN LET x == SetTimeout(w, "time")
       IN  [x EXCEPT !.c.timeouts.time = x.nt]
  ELSE w

\* constructor, in a runtime whose pending timers are tm and which has
\* handed out nt timer handles
ConstructIn(o, tm, nt) ==
  LET c0 == [ max       |-> o.max,
              time      |-> o.time,
              idle      |-> o.idle,
              dispose   |-> o.dispose,
              filter    |-> o.filter,
              command   |-> 0,
              chat      |-> TargetChat,
              collected |-> NullCollection,
              ended     |-> FALSE,
              timeouts  |-> [time |-> 0, idle |-> 0] ]
      w0 == [c |-> c0, lis |-> {}, sub |-> TRUE, sig |-> <<>>,
             tm |-> tm, nt |-> nt]
      w1 == ArmTimeTimeout(w0)
  IN  IF o.idle THEN ResetIdleTimeout(w1) ELSE w1

\* constructor of the first collector
Construct(o) == ConstructIn(o, {}, 0)

\* the fields, subscribers, messageCreate subscription and signals of a
\* collector, without the runtime's timers
Pack(w) == [c |-> w.c, lis |-> w.lis, sub |-> w.sub, sig |-> w.sig]

\* no second collector was created
NoOther ==
  [c   |-> [ max |-> 0, time |-> FALSE, idle |-> FALSE, dispose |-> TRUE,
             filter |-> "default", command |-> 0, chat |-> TargetChat,
             collected |-> NullCollection,
             ended |-> FALSE, timeouts |-> [time |-> 0, idle |-> 0] ],
   lis |-> {}, sub |-> FALSE, sig |-> <<>>]

\* the second collector in the runtime it shares with the first
OtherWorld ==
  [c |-> other.c, lis |-> other.lis, sub |-> other.sub, sig |-> other.sig,
   tm |-> timers, nt |-> nTimers]

\* the timer's callback is `() => this.stop(...)` of collector c
Owns(c, t) == t.h \in {c.timeouts.time, c.timeouts.idle}

\* a stop that removes the listeners before it emits end
StopLive_DisposeFirst(w, reason) ==
  LET w1 == [w EXCEPT !.c.ended = TRUE, !.tm = {t \in @ : ~Owns(w.c, t)},
                      !.sub = FALSE]
      w2 == IF w1.c.dispose THEN [w1 EXCEPT !.lis = {}] ELSE w1
  IN  Emit(w2, "end", NoMsg, w2.c.collected, reason)

\* stop(reason) on a collector that has not ended
StopLive(w, reason) ==
  LET w1 == [w EXCEPT !.c.ended = TRUE]
      w2 == IF w1.c.timeouts.time # 0
            THEN ClearTimeout(w1, w1.c.timeouts.time) ELSE w1
      w3 == IF w2.c.timeouts.idle # 0
            THEN ClearTimeout(w2, w2.c.timeouts.idle) ELSE w2
      w4 == [w3 EXCEPT !.sub = FALSE]
      w5 == Emit(w4, "end", NoMsg, w4.c.collected, reason)
  IN  IF w5.c.dispose THEN [w5 EXCEPT !.lis = {}] ELSE w5

\* a stop without the `if (this.ended) return` guard
Stop_NoEndedGuard(w, reason) == StopLive(w, reason)

\* stop(reason)
Stop(w, reason) ==
  IF w.c.ended THEN w ELSE StopLive(w, reason)

\* the filter's verdict on a message
FilterResult(kind, m) ==
  CASE kind = "default"    -> "pass"
    [] kind = "hello"      -> IF m.body = "hello" THEN "pass" ELSE "fail"
    [] kind = "asyncHello" -> IF m.body = "hello" THEN "pass" ELSE "fail"
    [] kind = "rejects"    -> "reject"
    [] kind = "throws"     -> "throw"

\* await this.filter(message); the filter of ChatModule.handleCollect is
\* msg => msg.id !== message.id, message being the .collect command
Verdict(c, m) ==
  IF c.filter = "notCommand"
  THEN (IF m.id # c.command THEN "pass" ELSE "fail")
  ELSE FilterResult(c.filter, m)

\* a catch block that also ends the collector
Catch_Stops(w) ==
  Stop(Emit(w, "error", NoMsg, NullCollection, ""), "error")

\* the catch block of _handleMessage
Catch(w) == Emit(w, "error", NoMsg, NullCollection, "")

\* a handler that re-arms the idle timer before looking at the verdict
AfterFilter_ResetOnFail(w, m, res) ==
  IF res = "fail" THEN (IF w.c.idle THEN ResetIdleTimeout(w) ELSE w)
  ELSE IF res = "reject" THEN Catch(w)
  ELSE IF w.c.collected.isNull THEN Catch(w)
  ELSE LET w1 == [w EXCEPT !.c.collected.items = CollectionSet(@, m)]
           w2 == Emit(w1, "collect", m, NullCollection, "")
           w3 == IF w2.c.idle THEN ResetIdleTimeout(w2) ELSE w2
       IN  IF w3.c.max # 0 /\ Size(w3.c.collected) >= w3.c.max
           THEN Stop(w3, "limit") ELSE w3

\* a handler that compares max with the number of collect signals
AfterFilter_CountsSignals(w, m, res) ==
  IF res = "fail" THEN w
  ELSE IF res = "reject" THEN Catch(w)
  ELSE IF w.c.collected.isNull THEN Catch(w)
  ELSE LET w1 == [w EXCEPT !.c.collected.items = CollectionSet(@, m)]
           w2 == Emit(w1, "collect", m, NullCollection, "")
           w3 == IF w2.c.idle THEN ResetIdleTimeout(w2) ELSE w2
       IN  IF w3.c.max # 0 /\ NumOn(w3.sig, "collect") >= w3.c.max
           THEN Stop(w3, "limit") ELSE w3

\* _handleMessage after the filter's value is known
AfterFilter(w, m, res) ==
  IF res = "fail" THEN w
  ELSE IF res = "reject" THEN Catch(w)
  ELSE IF w.c.collected.isNull THEN Catch(w)
  ELSE LET w1 == [w EXCEPT !.c.collected.items = CollectionSet(@, m)]
           w2 == Emit(w1, "collect", m, NullCollection, "")
           w3 == IF w2.c.idle THEN ResetIdleTimeout(w2) ELSE w2
       IN  IF w3.c.max # 0 /\ Size(w3.c.collected) >= w3.c.max
           THEN Stop(w3, "limit") ELSE w3

\* ---------------------------------------------------------------- Map
\* a Map is the list of its entries in insertion order; an entry that was
\* deleted stays in the list as an empty one for the iterators that run,
\* and is dropped when none runs
EmptyEntry == [key |-> "", value |-> ""]

MapHas(es, k) == \E i \in 1..Len(es) : es[i].key = k

MapGet(es, k) ==
  IF MapHas(es, k)
  THEN es[CHOOSE i \in 1..Len(es) : es[i].key = k].value
  ELSE ""

MapSet(es, k, v) ==
  IF MapHas(es, k)
  THEN [i \in 1..Len(es) |-> IF es[i].key = k THEN [key |-> k, value |-> v]
                                                ELSE es[i]]
  ELSE Append(es, [key |-> k, value |-> v])

\* a delete that moves the following entries one position forward
MapDelete_Splice(es, k) ==
  LET Other(e) == e.key # k IN SelectSeq(es, Other)

\* Map.prototype.delete
MapDelete(es, k) ==
  [i \in 1..Len(es) |-> IF es[i].key = k THEN EmptyEntry ELSE es[i]]

\* the entries once no iterator runs
MapEntries(es) ==
  LET Kept(e) == e # EmptyEntry IN SelectSeq(es, Kept)

\* an end listener that leaves the entry in activeCollectors
EndListener_Keeps(ac, chat, sig, from) == ac

\* the end listener of ChatModule.handleCollect runs inside emit('end'):
\* this.activeCollectors.delete(message.chatId)
EndListener(ac, chat, sig, from) ==
  IF \E k \in from..Len(sig) : sig[k].ch = "end" /\ sig[k].heard
  THEN MapDelete(ac, chat) ELSE ac

\* the collector and the runtime after an operation, with the listeners of
\* awaitMessage run
Fields(w) ==
  /\ collector'  = w.c
  /\ listeners'  = w.lis
  /\ subscribed' = w.sub
  /\ signals'    = w.sig
  /\ timers'     = w.tm
  /\ nTimers'    = w.nt
  /\ awaiter'    = Notify(awaiter, w.sig, Len(signals) + 1)

Commit(w) ==
  /\ Fields(w)
  /\ activeCollectors' =
       MapEntries(EndListener(activeCollectors, w.c.chat, w.sig,
                              Len(signals) + 1))

\* ------------------------------------------------------------------ Init
\* options.max is a count or absent (0); time and idle are set or absent
Options ==
  [ max : 0..MaxMax, time : BOOLEAN, idle : BOOLEAN,
    dispose : BOOLEAN, filter : FilterKinds ]

\* no accessor was called, ChatModule holds no collector and ModuleManager
\* has loaded no module
Elsewhere ==
  /\ access = NoAccess
  /\ activeCollectors = <<>>
  /\ nHandled = 0
  /\ pipeline = NoPipeline
  /\ client = NoClient

\* new MessageCollector(chat, o), then the owner's collector.on(...) calls
Created(o, ls, n) ==
  /\ LET w == Construct(o)
     IN  /\ collector = w.c
         /\ listeners = ls
         /\ subscribed = w.sub
         /\ signals = w.sig
         /\ timers = w.tm
         /\ nTimers = w.nt
  /\ pending = <<>>
  /\ initPending = 0
  /\ seen = <<>>
  /\ budget = n
  /\ nEvents = 0
  /\ evaluated = 0
  /\ nStops = 0
  /\ nInits = 0
  /\ syncEmits = TRUE
  /\ awaiter = NoAwaiter
  /\ other = NoOther
  /\ otherPending = <<>>
  /\ Elsewhere

Init ==
  \E o \in Options, ls \in ListenerSets : Created(o, ls, MaxMsgs)

\* --------------------------------------------------------------- actions
\* a body that no filter reads is exercised with one value
BodiesFor(kind) ==
  IF kind \in ContentKinds \/ awaiter.filter = "hello"
     \/ other.c.filter \in ContentKinds
  THEN Bodies
  ELSE {"hello"}

\* a message the client can raise: a new one of either chat, or a message
\* of the target chat delivered again (_createMessage builds a new object);
\* ev is the position of its messageCreate event in the client's stream
Candidates ==
  { [id |-> Len(seen) + 1, chatId |-> TargetChat, body |-> b, rev |-> 1,
     ev |-> nEvents + 1] :
      b \in BodiesFor(collector.filter) }
  \cup
  { [id |-> Len(seen) + 1, chatId |-> c, body |-> "hi", rev |-> 1,
     ev |-> nEvents + 1] :
      c \in Chats \ {TargetChat} }
  \cup
  { [seen[i] EXCEPT !.rev = @ + 1, !.ev = nEvents + 1] :
      i \in {k \in 1..Len(seen) : seen[k].chatId = TargetChat} }

\* continuations of a synchronous filter are microtasks: they run before
\* any timer or I/O callback
MicrotasksDrained ==
  /\ collector.filter \in AsyncKinds \/ pending = <<>>
  /\ other.c.filter \in AsyncKinds \/ otherPending = <<>>

\* a handler without the chat id guard
HandleMessage_NoChatCheck(w, m) ==
  IF w.c.ended THEN [w |-> w, res |-> "skip"]
  ELSE LET res == Verdict(w.c, m)
       IN  IF res = "throw" THEN [w |-> Catch(w), res |-> res]
           ELSE [w |-> w, res |-> res]

\* _handleMessage up to the await of the filter
HandleMessage(w, m) ==
  IF w.c.ended \/ m.chatId # w.c.chat THEN [w |-> w, res |-> "skip"]
  ELSE LET res == Verdict(w.c, m)
       IN  IF res = "throw" THEN [w |-> Catch(w), res |-> res]
           ELSE [w |-> w, res |-> res]

\* client.emit('messageCreate', m)
MessageCreate(m) ==
  /\ nEvents < budget
  /\ nEvents' = nEvents + 1
  /\ seen' = IF m.id > Len(seen) THEN Append(seen, m)
             ELSE [seen EXCEPT ![m.id] = m]
  /\ syncEmits' = (syncEmits /\ evaluated = Len(pending))
  /\ UNCHANGED <<budget, initPending, nStops, nInits, apart>>
  /\ IF ~subscribed
     THEN UNCHANGED <<collector, listeners, subscribed, signals, timers,
                      nTimers, pending, evaluated, awaiter,
                      activeCollectors>>
     ELSE LET r == HandleMessage(World, m)
          IN  /\ Commit(r.w)
              /\ evaluated' = IF r.res = "skip" THEN evaluated ELSE evaluated + 1
              /\ pending' = IF r.res \in {"skip", "throw"} THEN pending
                            ELSE Append(pending, [msg |-> m, res |-> r.res])
  /\ IF ~other.sub
     THEN UNCHANGED <<other, otherPending>>
     ELSE LET r == HandleMessage(OtherWorld, m)
          IN  /\ other' = Pack(r.w)
              /\ otherPending' =
                   IF r.res \in {"skip", "throw"} THEN otherPending
                   ELSE Append(otherPending, [msg |-> m, res |-> r.res])

RemoveAt(s, i) == SubSeq(s, 1, i - 1) \o SubSeq(s, i + 1, Len(s))

\* continuations that resume in any order whatever the filter
Resumable_AnyOrder == 1..Len(pending)

\* `await` of a value that is not a promise resumes in FIFO order; the
\* promises of an async filter settle in any order
Resumable ==
  IF collector.filter \in AsyncKinds THEN 1..Len(pending)
  ELSE {i \in 1..Len(pending) : i = 1}

\* _handleMessage from the await on
Resume(i) ==
  /\ i \in Resumable
  /\ pending' = RemoveAt(pending, i)
  /\ Commit(AfterFilter(World, pending[i].msg, pending[i].res))
  /\ UNCHANGED <<initPending, seen, budget, nEvents, evaluated, nStops,
                 nInits, syncEmits, other, otherPending, apart>>

\* collector.stop(reason) called by the owner
StopCall(reason) ==
  /\ nStops < MaxStops
  /\ nStops' = nStops + 1
  /\ Commit(Stop(World, reason))
  /\ UNCHANGED <<pending, initPending, seen, budget, nEvents, evaluated,
                 nInits, syncEmits, other, otherPending, apart>>

\* collector.init() up to `await import`; the owner initialises once
InitCall ==
  /\ nInits = 0
  /\ nInits' = nInits + 1
  /\ initPending' = initPending + 1
  /\ UNCHANGED <<collector, listeners, subscribed, timers, nTimers, pending,
                 signals, seen, budget, nEvents, evaluated, nStops, syncEmits,
                 awaiter, other, otherPending, apart, activeCollectors>>

\* init() after the import: this.collected = new Collection()
InitDone ==
  /\ initPending > 0
  /\ MicrotasksDrained
  /\ initPending' = initPending - 1
  /\ collector' = [collector EXCEPT !.collected = NewCollection]
  /\ UNCHANGED <<listeners, subscribed, timers, nTimers, pending, signals,
                 seen, budget, nEvents, evaluated, nStops, nInits, syncEmits,
                 awaiter, other, otherPending, apart, activeCollectors>>

\* a pending timer expires and its callback runs: () => this.stop(fn)
Expire(t) ==
  /\ t \in timers
  /\ Owns(collector, t)
  /\ MicrotasksDrained
  /\ Commit(Stop([World EXCEPT !.tm = @ \ {t}], t.fn))
  /\ UNCHANGED env

\* an awaitMessage that answers from the messages collected so far
AwaitMessage_FromHistory(o, w) ==
  LET old == {k \in 1..Size(w.c.collected) :
                OneOff(o.filter, w.c.collected.items[k])}
      aw  == [NoAwaiter EXCEPT
                !.state = "waiting", !.listening = TRUE,
                !.timeout = IF o.time THEN "pending" ELSE "none",
                !.filter = o.filter, !.at = Len(w.sig),
                !.had = {w.c.collected.items[k] :
                           k \in 1..Size(w.c.collected)}]
  IN  IF old = {} THEN aw
      ELSE Settle(Detach(aw), "resolved",
                  w.c.collected.items[CHOOSE k \in old : TRUE], "", Len(w.sig))

\* awaitMessage(options): the promise executor
AwaitMessage(o, w) ==
  [NoAwaiter EXCEPT
     !.state = "waiting", !.listening = TRUE,
     !.timeout = IF o.time THEN "pending" ELSE "none",
     !.filter = o.filter, !.at = Len(w.sig),
     !.had = {w.c.collected.items[k] : k \in 1..Size(w.c.collected)}]

\* collector.awaitMessage(o) called by the owner, who awaits one message
AwaitCall(o) ==
  /\ awaiter.state = "none"
  /\ awaiter' = AwaitMessage(o, World)
  /\ UNCHANGED <<collector, listeners, subscribed, timers, nTimers, pending,
                 initPending, signals, seen, budget, nEvents, evaluated,
                 nStops, nInits, syncEmits, other, otherPending, apart,
                 activeCollectors>>

\* a timeout callback of awaitMessage that also stops the collector
TimeoutCallback_Stops(w) == Stop(w, "time")

\* what the timeout callback of awaitMessage does to the collector: the
\* callback is `reject(new Error('Time limit exceeded'))` and no more
TimeoutCallback(w) == w

\* the timer of the awaitMessage call expires
AwaitTimeout ==
  /\ awaiter.timeout = "pending"
  /\ MicrotasksDrained
  /\ LET w == TimeoutCallback(World)
     IN  /\ collector' = w.c /\ listeners' = w.lis /\ subscribed' = w.sub
         /\ signals' = w.sig /\ timers' = w.tm /\ nTimers' = w.nt
         /\ awaiter' = Settle([Notify(awaiter, w.sig, Len(signals) + 1)
                                 EXCEPT !.timeout = "fired"],
                              "rejected", NoMsg, "timeout", Len(w.sig))
         /\ activeCollectors' =
              MapEntries(EndListener(activeCollectors, w.c.chat, w.sig,
                                     Len(signals) + 1))
  /\ UNCHANGED env

\* ------------------------------------------------------------- accessors
\* first, last, random, find, filter, map, array of MessageCollector
AccessorNames == {"first", "last", "random", "find", "filter", "map", "array"}

\* the argument of find and filter is a predicate on the content, that of
\* map is m => m.id; the other accessors take none
ArgsOf(op) ==
  IF op \in {"find", "filter"} THEN {"isHello", "isHi"}
  ELSE IF op = "map" THEN {"id"} ELSE {""}

Holds(fn, m) == (fn = "isHello" /\ m.body = "hello") \/ (fn = "isHi" /\ m.body = "hi")

\* the properties the constructor assigns on the instance; a property of
\* the instance is found before a method of the prototype
OwnProperties ==
  {"client", "chat", "filter", "max", "time", "idle", "dispose", "collected",
   "ended", "_timeouts", "_handleMessage"}

\* Collection: first(), last(), random(), find(fn), filter(fn), map(fn),
\* array() on the entries in insertion order; the result as a sequence
\* (empty for undefined)
CollectionFilter(items, fn) ==
  LET Test(m) == Holds(fn, m) IN SelectSeq(items, Test)

CollectionMap(items) == [k \in 1..Len(items) |-> items[k].id]

\* the element at position k, if there is one
At(items, k) == IF k \in 1..Len(items) THEN <<items[k]>> ELSE <<>>

CollectionRead(items, op, fn) ==
  CASE op = "first"  -> {At(items, 1)}
    [] op = "last"   -> {At(items, Len(items))}
    [] op = "random" -> IF items = <<>> THEN {<<>>}
                        ELSE {<<items[k]>> : k \in 1..Len(items)}
    [] op = "find"   -> {At(CollectionFilter(items, fn), 1)}
    [] op = "filter" -> {CollectionFilter(items, fn)}
    [] op = "map"    -> {CollectionMap(items)}
    [] op = "array"  -> {items}

\* this.filter(x) with x a function: the acceptance predicate of the
\* constructor's options runs on x
PredicateCall(kind) ==
  IF kind = "throws" THEN [out |-> "throws", val |-> <<>>]
  ELSE [out |-> "predicate", val |-> <<>>]

\* the method body: return this.collected.<op>(fn)
Delegate(c, op, fn) ==
  IF c.collected.isNull THEN {[out |-> "throws", val |-> <<>>]}
  ELSE {[out |-> "value", val |-> v] :
          v \in CollectionRead(c.collected.items, op, fn)}

\* a lookup that finds the prototype's method whatever the instance holds
Call_Prototype(c, op, fn) == Delegate(c, op, fn)

\* collector.<op>(fn): the possible outcomes
Call(c, op, fn) ==
  IF op \in OwnProperties THEN {PredicateCall(c.filter)}
  ELSE Delegate(c, op, fn)

\* collector.array()
Array(c) == CHOOSE r \in Call(c, "array", "") : TRUE

\* the owner calls an accessor
Access(op, fn) ==
  /\ \E r \in Call(collector, op, fn) :
       access' = [op |-> op, fn |-> fn, out |-> r.out, val |-> r.val]
  /\ UNCHANGED <<collector, listeners, subscribed, timers, nTimers, signals,
                 awaiter, activeCollectors, nHandled, pipeline, client>>
  /\ UNCHANGED <<pending, initPending, seen, budget, nEvents, evaluated,
                 nStops, nInits, syncEmits, other, otherPending>>

\* --------------------------------------------------------- ModuleManager
\* a loaded module, by what its process(message) does: it has none, returns
\* the message, sets a property on it and returns it, returns a changed
\* copy, throws, sets a property and then throws, returns nothing
ModuleKinds ==
  {"none", "returns", "tags", "copies", "throws", "tagsThenThrows", "forgets"}

\* module i's process(msg): the object msg refers to as the call leaves it,
\* whether the call threw, and the value it returned
ModuleProcess(kind, i, msg, fresh) ==
  LET tagged == [msg EXCEPT !.tags = @ \cup {i}]
  IN  CASE kind = "returns" -> [left |-> msg, threw |-> FALSE, ret |-> msg]
        [] kind = "tags" ->
             IF msg = Undefined
             THEN [left |-> msg, threw |-> TRUE, ret |-> Undefined]
             ELSE [left |-> tagged, threw |-> FALSE, ret |-> tagged]
        [] kind = "copies" ->
             [left |-> msg, threw |-> FALSE,
              ret |-> [ref |-> fresh, tags |-> msg.tags \cup {i}]]
        [] kind = "throws" ->
             [left |-> msg, threw |-> TRUE, ret |-> Undefined]
        [] kind = "tagsThenThrows" ->
             IF msg = Undefined
             THEN [left |-> msg, threw |-> TRUE, ret |-> Undefined]
             ELSE [left |-> tagged, threw |-> TRUE, ret |-> Undefined]
        [] kind = "forgets" ->
             [left |-> msg, threw |-> FALSE, ret |-> Undefined]

\* a loop body that leaves the loop when a module throws
Iteration_StopsOnThrow(p) ==
  LET i == p.at
      r == ModuleProcess(p.modules[i], i, p.message, p.objects + 1)
  IN  IF p.modules[i] = "none" THEN [p EXCEPT !.at = i + 1]
      ELSE [p EXCEPT
              !.at      = IF r.threw THEN Len(p.modules) + 1 ELSE i + 1,
              !.calls   = Append(@, [module |-> i, arg |-> p.message,
                                     left |-> r.left, threw |-> r.threw,
                                     ret |-> r.ret]),
              !.objects = IF r.ret.ref > @ THEN r.ret.ref ELSE @,
              !.message = IF r.threw THEN r.left ELSE r.ret]

\* one iteration of processMessage's loop: try { if (typeof module.process
\* === 'function') message = await module.process(message) } catch { log }
Iteration(p) ==
  LET i == p.at
      r == ModuleProcess(p.modules[i], i, p.message, p.objects + 1)
  IN  IF p.modules[i] = "none" THEN [p EXCEPT !.at = i + 1]
      ELSE [p EXCEPT
              !.at      = i + 1,
              !.calls   = Append(@, [module |-> i, arg |-> p.message,
                                     left |-> r.left, threw |-> r.threw,
                                     ret |-> r.ret]),
              !.objects = IF r.ret.ref > @ THEN r.ret.ref ELSE @,
              !.message = IF r.threw THEN r.left ELSE r.ret]

\* what no operation of ModuleManager touches
collectors ==
  <<collector, listeners, subscribed, timers, nTimers, pending, initPending,
    signals, seen, budget, nEvents, evaluated, nStops, nInits, syncEmits,
    awaiter, other, otherPending, access, activeCollectors, nHandled,
    client>>

\* loadModule: this.modules.push(instance), before any message is
\* processed; the module has process() of this kind, getCommands() gives
\* cmds and its cleanup is of kind cl
LoadModule(kind, cmds, cl) ==
  /\ pipeline.runs = 0
  /\ pipeline.cleaning = 0
  /\ Len(pipeline.modules) < MaxModules
  /\ pipeline' = [pipeline EXCEPT !.modules = Append(@, kind),
                                  !.commands = Append(@, cmds),
                                  !.cleanups = Append(@, cl)]
  /\ UNCHANGED collectors

\* command names as the modules write them, and String.toLowerCase
CommandNames == {"help", "Help", "HELP", "ping", "Ping"}

Lower(name) ==
  CASE name \in {"help", "Help", "HELP"} -> "help"
    [] name \in {"ping", "Ping"}         -> "ping"

\* what getCommands() of a module returns, as the list of its entries
CommandLists ==
  {<<>>, <<"help">>, <<"Help", "ping">>, <<"HELP">>, <<"Ping", "help">>}

\* module.cleanup: absent, returns, throws
CleanupKinds == {"none", "returns", "throws"}

\* init(): this.commandRegistry = new Collection()
InitRegistry ==
  /\ pipeline.registry.isNull
  /\ pipeline' = [pipeline EXCEPT !.registry = [isNull |-> FALSE,
                                                 entries |-> <<>>]]
  /\ UNCHANGED collectors

\* the registrations of buildCommandRegistry's two loops from module i,
\* entry j on: commandRegistry.set(name.toLowerCase(), {...command, module})
RECURSIVE Register(_, _, _, _)
Register(es, cmds, i, j) ==
  IF i > Len(cmds) THEN es
  ELSE IF j > Len(cmds[i]) THEN Register(es, cmds, i + 1, 1)
  ELSE Register(MapSet(es, Lower(cmds[i][j]),
                       [module |-> i, name |-> cmds[i][j]]),
                cmds, i, j + 1)

\* buildCommandRegistry()
BuildCommandRegistry ==
  /\ pipeline.cleaning = 0
  /\ pipeline.modules # <<>>
  /\ pipeline' =
       IF pipeline.registry.isNull THEN pipeline
       ELSE [pipeline EXCEPT
               !.registry.entries = Register(<<>>, pipeline.commands, 1, 1)]
  /\ pipeline' # pipeline
  /\ UNCHANGED collectors

\* the value of an absent command
NoCommand == [module |-> 0, name |-> ""]

\* a getCommand that looks the name up as written
GetCommand_AsWritten(p, name) ==
  IF p.registry.isNull \/ ~MapHas(p.registry.entries, name)
  THEN NoCommand
  ELSE MapGet(p.registry.entries, name)

\* getCommand(name): this.commandRegistry?.get(name.toLowerCase())
GetCommand(p, name) ==
  IF p.registry.isNull \/ ~MapHas(p.registry.entries, Lower(name))
  THEN NoCommand
  ELSE MapGet(p.registry.entries, Lower(name))

\* ModuleManager.cleanup() is called
ManagerCleanup ==
  /\ pipeline.cleaning = 0
  /\ pipeline.at = 0
  /\ pipeline.modules # <<>>
  /\ pipeline' = [pipeline EXCEPT !.cleaning = 1, !.cleaned = <<>>]
  /\ UNCHANGED collectors

\* a cleanup loop that ends at the first module whose cleanup throws
CleanupIteration_StopsOnThrow(p) ==
  LET i == p.cleaning
  IN  IF p.cleanups[i] = "none" THEN [p EXCEPT !.cleaning = i + 1]
      ELSE [p EXCEPT
              !.cleaning = IF p.cleanups[i] = "throws"
                           THEN Len(p.modules) + 1 ELSE i + 1,
              !.cleaned  = Append(@, [module |-> i,
                                      threw |-> p.cleanups[i] = "throws"])]

\* one iteration of cleanup()'s loop: if (typeof module.cleanup ===
\* 'function') try { await module.cleanup() } catch { log }
CleanupIteration(p) ==
  LET i == p.cleaning
  IN  IF p.cleanups[i] = "none" THEN [p EXCEPT !.cleaning = i + 1]
      ELSE [p EXCEPT
              !.cleaning = i + 1,
              !.cleaned  = Append(@, [module |-> i,
                                      threw |-> p.cleanups[i] = "throws"])]

CleanupModule ==
  /\ pipeline.cleaning \in 1..Len(pipeline.modules)
  /\ pipeline' = CleanupIteration(pipeline)
  /\ UNCHANGED collectors

\* after the loop: this.modules = []; this.commandRegistry?.clear()
CleanupDone ==
  /\ pipeline.cleaning = Len(pipeline.modules) + 1
  /\ pipeline' = [pipeline EXCEPT
                    !.cleaning = 0, !.modules = <<>>, !.commands = <<>>,
                    !.cleanups = <<>>, !.registry.entries = <<>>]
  /\ UNCHANGED collectors

\* processMessage(message) is called with a new Message
ProcessMessage ==
  /\ pipeline.at = 0
  /\ pipeline.runs < MaxRuns
  /\ pipeline' = [pipeline EXCEPT
                    !.at = 1, !.runs = @ + 1, !.calls = <<>>,
                    !.objects = @ + 1,
                    !.message = [ref |-> pipeline.objects + 1, tags |-> {}]]
  /\ UNCHANGED collectors

\* the loop reaches the next module
Process ==
  /\ pipeline.at \in 1..Len(pipeline.modules)
  /\ pipeline' = Iteration(pipeline)
  /\ UNCHANGED collectors

\* return message
Return ==
  /\ pipeline.at = Len(pipeline.modules) + 1
  /\ pipeline' = [pipeline EXCEPT !.at = 0, !.result = pipeline.message]
  /\ UNCHANGED collectors

\* ------------------------------------------------ the second collector
OtherFrame ==
  UNCHANGED <<collector, listeners, subscribed, signals, pending,
              initPending, seen, budget, nEvents, evaluated, nInits,
              syncEmits, awaiter, apart>>

OtherFields(w) ==
  /\ other'   = Pack(w)
  /\ timers'  = w.tm
  /\ nTimers' = w.nt

CommitOther(w) ==
  /\ OtherFields(w)
  /\ activeCollectors' =
       MapEntries(EndListener(activeCollectors, w.c.chat, w.sig,
                              Len(other.sig) + 1))

ResumableOther ==
  IF other.c.filter \in AsyncKinds THEN 1..Len(otherPending)
  ELSE {i \in 1..Len(otherPending) : i = 1}

\* _handleMessage of the second collector from the await on
ResumeOther(i) ==
  /\ i \in ResumableOther
  /\ otherPending' = RemoveAt(otherPending, i)
  /\ CommitOther(AfterFilter(OtherWorld, otherPending[i].msg,
                             otherPending[i].res))
  /\ UNCHANGED nStops
  /\ OtherFrame

\* stop(reason) of the second collector called by its owner
StopOther(reason) ==
  /\ other.sub \/ other.c.ended
  /\ nStops < MaxStops
  /\ nStops' = nStops + 1
  /\ CommitOther(Stop(OtherWorld, reason))
  /\ UNCHANGED otherPending
  /\ OtherFrame

\* a pending timer of the second collector expires
ExpireOther(t) ==
  /\ t \in timers
  /\ Owns(other.c, t)
  /\ MicrotasksDrained
  /\ CommitOther(Stop([OtherWorld EXCEPT !.tm = @ \ {t}], t.fn))
  /\ UNCHANGED <<otherPending, nStops>>
  /\ OtherFrame

\* ------------------------------------------------------------ ChatModule
\* args[0] of .collect: absent (-2), not a number (-1), or a number
CollectArgs == -2..MaxMax

\* no collector was created in this slot
Vacant(c, sub) == ~sub /\ ~c.ended

\* the options handleCollect passes: parseInt of a text that is no number
\* is NaN, which passes both range tests and leaves max unset; time is
\* (parseInt(args[1]) || 30) * 1000, never zero
CollectOptions(arg) ==
  [max |-> IF arg = -1 THEN 0 ELSE arg, time |-> TRUE, idle |-> FALSE,
   dispose |-> TRUE, filter |-> "notCommand"]

\* createMessageCollector(options) and the two collector.on calls
NewCollector(arg, m) ==
  LET w == ConstructIn(CollectOptions(arg), timers, nTimers)
  IN  [w EXCEPT !.c.command = m.id, !.lis = {"collect", "end"}]

ModuleFrame ==
  UNCHANGED <<initPending, seen, budget, nEvents, evaluated, nStops, nInits,
              syncEmits, access, pipeline, client>>

MainFrame ==
  UNCHANGED <<collector, listeners, subscribed, signals, pending, awaiter>>

\* what a handler that works on the second collector leaves alone
OtherUntouched == MainFrame /\ UNCHANGED otherPending

\* a handler that creates the collector whatever activeCollectors holds
HandleCollect_NoHasCheck(arg, m) ==
  /\ nHandled < MaxCommands
  /\ nHandled' = nHandled + 1
  /\ ModuleFrame
  /\ IF arg = -2 \/ arg = 0
     THEN /\ MainFrame
          /\ UNCHANGED <<other, otherPending, timers, nTimers,
                         activeCollectors>>
     ELSE LET w == [NewCollector(arg, m) EXCEPT !.c.chat = m.chatId]
          IN  /\ activeCollectors' = MapSet(activeCollectors, m.chatId,
                     IF Vacant(collector, subscribed) THEN "main" ELSE "other")
              /\ IF Vacant(collector, subscribed)
                 THEN /\ Fields(w)
                      /\ UNCHANGED <<pending, other, otherPending>>
                 ELSE /\ Vacant(other.c, other.sub)
                      /\ OtherFields(w)
                      /\ OtherUntouched

\* .collect <arg> arrives as message m
HandleCollect(arg, m) ==
  /\ nHandled < MaxCommands
  /\ nHandled' = nHandled + 1
  /\ ModuleFrame
  /\ IF arg = -2 \/ arg = 0 \/ MapHas(activeCollectors, m.chatId)
     THEN /\ MainFrame
          /\ UNCHANGED <<other, otherPending, timers, nTimers,
                         activeCollectors>>
     ELSE LET w == [NewCollector(arg, m) EXCEPT !.c.chat = m.chatId]
          IN  /\ activeCollectors' = MapSet(activeCollectors, m.chatId,
                     IF Vacant(collector, subscribed) THEN "main" ELSE "other")
              /\ IF Vacant(collector, subscribed)
                 THEN /\ Fields(w)
                      /\ UNCHANGED <<pending, other, otherPending>>
                 ELSE /\ Vacant(other.c, other.sub)
                      /\ OtherFields(w)
                      /\ OtherUntouched

\* .stopcollect arrives in chat ch
HandleStopCollect(ch) ==
  /\ nHandled < MaxCommands
  /\ nHandled' = nHandled + 1
  /\ ModuleFrame
  /\ CASE MapGet(activeCollectors, ch) = "" ->
            /\ MainFrame
            /\ UNCHANGED <<other, otherPending, timers, nTimers,
                           activeCollectors>>
       [] MapGet(activeCollectors, ch) = "main" ->
            /\ Commit(Stop(World, "manual"))
            /\ UNCHANGED <<pending, other, otherPending>>
       [] MapGet(activeCollectors, ch) = "other" ->
            /\ CommitOther(Stop(OtherWorld, "manual"))
            /\ OtherUntouched

\* the collectors, the runtime's timers and the map while cleanup() runs
CleanupStart ==
  [main |-> Pack(World), other |-> other, tm |-> timers, nt |-> nTimers,
   map |-> activeCollectors]

\* cleanup()'s loop from the iterator's position i on:
\* for (const [chatId, collector] of this.activeCollectors)
\*   collector.stop('cleanup')
RECURSIVE CleanupLoop(_, _)
CleanupLoop(x, i) ==
  IF i > Len(x.map) THEN x
  ELSE IF x.map[i] = EmptyEntry THEN CleanupLoop(x, i + 1)
  ELSE LET p  == IF x.map[i].value = "main" THEN x.main ELSE x.other
           w  == [c |-> p.c, lis |-> p.lis, sub |-> p.sub, sig |-> p.sig,
                  tm |-> x.tm, nt |-> x.nt]
           w2 == Stop(w, "cleanup")
           x2 == [x EXCEPT
                    !.tm  = w2.tm,
                    !.nt  = w2.nt,
                    !.map = EndListener(@, w.c.chat, w2.sig, Len(w.sig) + 1)]
       IN  CleanupLoop(IF x.map[i].value = "main"
                       THEN [x2 EXCEPT !.main = Pack(w2)]
                       ELSE [x2 EXCEPT !.other = Pack(w2)],
                       i + 1)

\* ChatModule.cleanup(): stop every stored collector, then clear the map;
\* the module handles no command afterwards
Cleanup ==
  /\ nHandled <= MaxCommands
  /\ nHandled' = MaxCommands + 1
  /\ ModuleFrame
  /\ LET x == CleanupLoop(CleanupStart, 1)
     IN  /\ Fields([c |-> x.main.c, lis |-> x.main.lis, sub |-> x.main.sub,
                    sig |-> x.main.sig, tm |-> x.tm, nt |-> x.nt])
         /\ other' = x.other
         /\ activeCollectors' = <<>>
  /\ UNCHANGED <<pending, otherPending>>

Next ==
  \/ \E m \in Candidates : MessageCreate(m)
  \/ \E i \in 1..Len(pending) : Resume(i)
  \/ \E r \in UserReasons : StopCall(r)
  \/ InitCall
  \/ InitDone
  \/ \E t \in timers : Expire(t)

Spec == Init /\ [][Next]_vars

\* the owner subscribed as ChatModule.handleCollect does
CoreInit ==
  \E o \in Options : Created(o, {"collect", "end"}, MaxMsgs)

CoreSpec == CoreInit /\ [][Next]_vars

\* collectors whose filter fails on every message
ThrowInit ==
  \E o \in Options, ls \in ListenerSets :
    /\ o.filter \in {"throws", "rejects"}
    /\ Created(o, ls, MaxMsgs)

ThrowSpec == ThrowInit /\ [][Next]_vars

FairInit ==
  \E o \in Options : Created(o, {"collect", "end"}, FairMsgs)

\* the event loop runs the expired timers and drains the microtasks
FairSpec ==
  /\ FairInit /\ [][Next]_vars
  /\ WF_vars(\E t \in timers : Expire(t))
  /\ WF_vars(collector.filter \notin AsyncKinds /\ Resume(1))

\* the max=2, time=5000 scenario: default filter, no idle bound
ScenarioInit ==
  \E o \in Options, ls \in ListenerSets :
    /\ o.max = MaxMax /\ o.time /\ ~o.idle /\ o.filter = "default"
    /\ Created(o, ls, ScenarioMsgs)

ScenarioSpec == ScenarioInit /\ [][Next]_vars

\* collectors that accept messages, with and without an async filter
OrderInit ==
  \E o \in Options :
    /\ o.filter \in {"default", "asyncHello"}
    /\ Created(o, {"collect", "end"}, MaxMsgs)

OrderSpec == OrderInit /\ [][Next]_vars

\* a collector (dispose left at its default) whose owner also awaits one
\* message
AwaitInit ==
  \E o \in Options :
    /\ o.filter = "default" /\ o.dispose
    /\ Created(o, {"collect", "end"}, AwaitMsgs)

AwaitNext ==
  \/ Next
  \/ \E o \in AwaitOptions : AwaitCall(o)
  \/ AwaitTimeout

AwaitSpec == AwaitInit /\ [][AwaitNext]_vars

\* two collectors created on the same chat, one after the other; the owner
\* of the second may have awaited its init()
PairOptions ==
  {o \in Options : o.filter = "default" /\ o.dispose /\ o.max <= 1}

PairInit ==
  \E o1 \in PairOptions, o2 \in PairOptions, col \in {NullCollection,
                                                       NewCollection} :
    LET w1 == Construct(o1)
        w2 == ConstructIn(o2, w1.tm, w1.nt)
    IN  /\ collector = w1.c
        /\ listeners = {"collect", "end"}
        /\ subscribed = w1.sub
        /\ signals = w1.sig
        /\ other = [Pack(w2) EXCEPT !.c.collected = col,
                                     !.lis = {"collect", "end"}]
        /\ timers = w2.tm
        /\ nTimers = w2.nt
        /\ pending = <<>> /\ otherPending = <<>>
        /\ initPending = 0 /\ seen = <<>> /\ budget = PairMsgs
        /\ nEvents = 0 /\ evaluated = 0 /\ nStops = 0 /\ nInits = 0
        /\ syncEmits = TRUE /\ awaiter = NoAwaiter
        /\ Elsewhere

PairNext ==
  \/ Next
  \/ \E i \in 1..Len(otherPending) : ResumeOther(i)
  \/ \E r \in UserReasons : StopOther(r)
  \/ \E t \in timers : ExpireOther(t)

PairSpec == PairInit /\ [][PairNext]_vars

\* collectors with a filter on the content
ContentInit ==
  \E o \in Options :
    /\ o.filter \in ContentKinds
    /\ Created(o, {"collect", "end"}, MaxMsgs)

ContentSpec == ContentInit /\ [][Next]_vars

\* collectors that accept every message
BoundsInit ==
  \E o \in Options :
    /\ o.filter = "default"
    /\ Created(o, {"collect", "end"}, MaxMsgs)

BoundsSpec == BoundsInit /\ [][Next]_vars

\* the same, with ChatModule.cleanup among the callers of stop
ReasonNext ==
  \/ Next
  \/ StopCall("cleanup")

ReasonSpec == BoundsInit /\ [][ReasonNext]_vars

\* collectors with an idle bound
IdleInit ==
  \E o \in Options :
    /\ o.idle /\ o.filter \in {"default", "asyncHello"}
    /\ Created(o, {"collect", "end"}, MaxMsgs)

IdleSpec == IdleInit /\ [][Next]_vars

\* the same with dispose: false
AwaitKeepInit ==
  \E o \in Options :
    /\ o.filter = "default" /\ ~o.dispose
    /\ Created(o, {"collect", "end"}, AwaitMsgs)

AwaitKeepSpec == AwaitKeepInit /\ [][AwaitNext]_vars

\* collectors whose owner reads them through the accessors
AccessInit ==
  \E o \in Options :
    /\ o.filter \in {"default", "hello"} /\ o.time /\ ~o.idle /\ o.dispose
    /\ Created(o, {"collect", "end"}, MaxMsgs)

AccessNext ==
  \/ Next
  \/ \E op \in AccessorNames : \E fn \in ArgsOf(op) : Access(op, fn)

AccessSpec == AccessInit /\ [][AccessNext]_vars

\* ModuleManager with the modules it loaded
PipeInit ==
  Created([max |-> 0, time |-> FALSE, idle |-> FALSE, dispose |-> TRUE,
           filter |-> "default"], {}, 0)

PipeNext ==
  \/ \E kind \in ModuleKinds : LoadModule(kind, <<>>, "none")
  \/ ProcessMessage
  \/ Process
  \/ Return

PipeSpec == PipeInit /\ [][PipeNext]_vars

\* ModuleManager: init, loadModules, buildCommandRegistry and cleanup
RegistryNext ==
  \/ InitRegistry
  \/ \E cmds \in CommandLists : \E cl \in CleanupKinds :
       LoadModule("returns", cmds, cl)
  \/ BuildCommandRegistry
  \/ ManagerCleanup
  \/ CleanupModule
  \/ CleanupDone

RegistrySpec == PipeInit /\ [][RegistryNext]_vars

\* ChatModule after its constructor: activeCollectors is empty and no
\* collector exists
ModuleInit ==
  /\ collector = NoOther.c
  /\ listeners = {}
  /\ subscribed = FALSE
  /\ signals = <<>>
  /\ timers = {}
  /\ nTimers = 0
  /\ pending = <<>> /\ otherPending = <<>> /\ other = NoOther
  /\ initPending = 0 /\ seen = <<>> /\ budget = ModuleMsgs
  /\ nEvents = 0 /\ evaluated = 0 /\ nStops = 0 /\ nInits = 0
  /\ syncEmits = TRUE /\ awaiter = NoAwaiter
  /\ Elsewhere

ModuleNext ==
  \/ \E m \in Candidates : MessageCreate(m)
  \/ \E i \in 1..Len(pending) : Resume(i)
  \/ \E i \in 1..Len(otherPending) : ResumeOther(i)
  \/ \E t \in timers : Expire(t)
  \/ \E t \in timers : ExpireOther(t)
  \/ \E arg \in CollectArgs : \E i \in 1..Len(seen) :
       HandleCollect(arg, seen[i])
  \/ \E ch \in Chats : HandleStopCollect(ch)
  \/ Cleanup

ModuleSpec == ModuleInit /\ [][ModuleNext]_vars

\* ---------------------------------------------------------------- claims
Collected   == collector.collected.items
EndSignals  == {k \in 1..Len(signals) : signals[k].ch = "end"}
EndReasons  == {signals[k].reason : k \in EndSignals}
TargetIds   == {i \in 1..Len(seen) : seen[i].chatId = TargetChat}
\* ids of the raised target-chat messages that the filter accepts
Matched     == {i \in TargetIds : FilterResult(collector.filter, seen[i]) = "pass"}
\* no time, idle or explicit stop has ended the collector
OnlyLimit   == EndReasons \subseteq {"limit"}

\* C1: with max = N the collected count never exceeds N, and once N
\* accepted messages of the target chat have been handled (and no time, idle
\* or explicit stop came first) the collector has ended with reason "limit"
\* holding exactly N messages.
C1_MaxLimit ==
  collector.max # 0 =>
    /\ Len(Collected) <= collector.max
    /\ (pending = <<>> /\ Cardinality(Matched) >= collector.max /\ OnlyLimit)
         => /\ collector.ended
            /\ EndReasons = {"limit"}
            /\ Len(Collected) = collector.max

\* C2: max=2, time set; three accepted target-chat messages and one message
\* of another chat, all raised before any filter result is resumed: once all
\* continuations have run, exactly the first two target-chat messages are
\* collected, the end reason is "limit", and the third was never inserted.
C2_SyncBurst ==
  ( /\ nEvents = ScenarioMsgs /\ Len(seen) = ScenarioMsgs
    /\ Cardinality(TargetIds) = ScenarioMsgs - 1
    /\ syncEmits /\ evaluated = ScenarioMsgs - 1
    /\ pending = <<>> /\ OnlyLimit )
  => /\ collector.ended
     /\ EndReasons = {"limit"}
     /\ Len(Collected) = collector.max
     /\ \A k \in 1..Len(Collected) :
          Collected[k].id \in TargetIds
          /\ Cardinality({i \in TargetIds : i < Collected[k].id}) = k - 1

\* C3: once ended, the collected mapping never changes again, no timer is
\* armed again, and timers and subscription stay released.
C3_FrozenAfterEnd ==
  [][collector.ended =>
       /\ collector'.collected = collector.collected
       /\ timers' = {}
       /\ ~subscribed']_vars

\* C4: a filter evaluation that resolves to true after the collector ended
\* is discarded: nothing is inserted, no collect signal, no idle timer.
C4_DiscardAfterStop ==
  [][(/\ collector.ended
      /\ \E i \in 1..Len(pending) :
           pending[i].res = "pass" /\ pending' = RemoveAt(pending, i))
     => /\ collector'.collected = collector.collected
        /\ NumOn(signals', "collect") = NumOn(signals, "collect")
        /\ timers' = timers]_vars

\* C5: stop is idempotent: at most one end signal is ever emitted, and an
\* explicit stop() on an ended collector changes nothing.
C5_StopIdempotent ==
  /\ [](Cardinality(EndSignals) <= 1)
  /\ [][(collector.ended /\ nStops' # nStops)
        => UNCHANGED <<collector, listeners, subscribed, signals, timers,
                       pending>>]_vars

C5_Witness == collector.ended /\ nStops >= 2 /\ Cardinality(EndSignals) = 1

\* C6: the step that ends a live collector cancels every timer, removes the
\* messageCreate handler and emits, last, the one end signal, whose payload
\* is the collected mapping (not null) and whose reason is the caller's.
C6_FirstStop ==
  [][(~collector.ended /\ collector'.ended)
     => /\ timers' = {}
        /\ ~subscribed'
        /\ NumOn(signals', "end") = 1
        /\ LET e == signals'[Len(signals')]
           IN  /\ e.ch = "end"
               /\ ~e.payload.isNull
               /\ e.payload = collector'.collected
               /\ (nStops' # nStops => e.reason \in UserReasons)]_vars

\* C7: every collected message belongs to the target chat.
C7_TargetChatOnly ==
  \A k \in 1..Len(Collected) : Collected[k].chatId = TargetChat

C7_Witness ==
  /\ Len(Collected) >= 1
  /\ \E i \in 1..Len(seen) : seen[i].chatId # TargetChat

\* C8: a collector with a time bound eventually ends; when no accepted
\* message was raised and nothing else stopped it, it ended by the time
\* timer, with reason "time" and nothing collected.
C8_TimeEnds ==
  /\ [](collector.time => <>collector.ended)
  /\ []((/\ collector.time /\ ~collector.idle /\ collector.ended
         /\ Matched = {} /\ nStops = 0)
        => EndReasons = {"time"} /\ Len(Collected) = 0)

C8_Witness ==
  /\ collector.time /\ ~collector.idle /\ collector.ended
  /\ Matched = {} /\ nStops = 0 /\ nEvents >= 1
  /\ EndReasons = {"time"}

IdleTimers == {t \in timers : t.fn = "idle"}

\* C9: a collector with an idle bound eventually ends; while it is live its
\* one pending idle timer is the one armed by the latest collect (or by the
\* constructor), so an idle end is always the expiry of the latest window;
\* with no other bound and no explicit stop the end reason is "idle".
C9_IdleEnds ==
  /\ [](collector.idle => <>collector.ended)
  /\ []((collector.idle /\ ~collector.ended)
        => /\ Cardinality(IdleTimers) = 1
           /\ \A t \in IdleTimers :
                t.h = collector.timeouts.idle
                /\ t.gen = NumOn(signals, "collect"))
  /\ []((/\ collector.idle /\ ~collector.time /\ collector.max = 0
         /\ collector.ended /\ nStops = 0)
        => EndReasons = {"idle"})

C9_Witness ==
  /\ collector.idle /\ collector.ended
  /\ EndReasons = {"idle"}
  /\ NumOn(signals, "collect") >= 1

\* C10: with a filter that throws or rejects on every message nothing is
\* collected, no collect signal is emitted, one error signal is emitted per
\* completed evaluation, and only time, idle or an explicit stop ends it.
C10_ThrowingFilter ==
  collector.filter \in {"throws", "rejects"} =>
    /\ Len(Collected) = 0
    /\ NumOn(signals, "collect") = 0
    /\ NumOn(signals, "error") = evaluated - Len(pending)
    /\ EndReasons \subseteq ({"time", "idle"} \cup UserReasons)
    /\ (collector.ended <=> EndSignals # {})

C10_Witness ==
  /\ collector.filter \in {"throws", "rejects"}
  /\ NumOn(signals, "error") >= 2
  /\ ~collector.ended

\* C11: a failure while handling a message never escapes the handler: every
\* emit('error') finds a subscriber, whatever the owner subscribed to.
C11_NoEscape ==
  \A k \in 1..Len(signals) : signals[k].ch = "error" => signals[k].heard

CollectSignals == {k \in 1..Len(signals) : signals[k].ch = "collect"}
\* position in signals of the first collect signal of message id
FirstCollect(id) ==
  CHOOSE k \in CollectSignals :
    /\ signals[k].msg.id = id
    /\ \A j \in CollectSignals : signals[j].msg.id = id => k <= j

\* C12 as stated: the collect signals are emitted, and the entries of the
\* collected mapping are ordered, by the position of the messageCreate event
\* in the client's stream, for synchronous and asynchronous filters alike.
C12_DeliveryOrder ==
  /\ \A j, k \in CollectSignals :
       j < k => signals[j].msg.ev < signals[k].msg.ev
  /\ \A k, l \in 1..Len(Collected) :
       k < l => FirstCollect(Collected[k].id) < FirstCollect(Collected[l].id)

\* C12 amended: with a synchronous filter the collect signals are emitted in
\* the order the messageCreate events were raised; with any filter the
\* collected mapping lists the messages in the order of their first collect
\* signal, i.e. the order in which the filter evaluations completed.
C12_CompletionOrder ==
  /\ collector.filter \notin AsyncKinds
       => \A j, k \in CollectSignals :
            j < k => signals[j].msg.ev < signals[k].msg.ev
  /\ \A k \in 1..Len(Collected) :
       \E j \in CollectSignals : signals[j].msg.id = Collected[k].id
  /\ \A k, l \in 1..Len(Collected) :
       k < l => FirstCollect(Collected[k].id) < FirstCollect(Collected[l].id)

C12_Witness ==
  /\ collector.filter \notin AsyncKinds
  /\ Len(Collected) = 2
  /\ Cardinality(CollectSignals) >= 2

\* C13: with the synchronous content filter, while no bound or stop has
\* ended the collector and every raised message has been handled, the
\* collected mapping is exactly the raised target-chat messages the filter
\* accepts, in arrival order.
C13_ContentFilter ==
  (collector.filter = "hello" /\ pending = <<>> /\ ~collector.ended)
  => /\ Len(Collected) = Cardinality(Matched)
     /\ \A k \in 1..Len(Collected) :
          /\ Collected[k].id \in Matched
          /\ Cardinality({i \in Matched : i < Collected[k].id}) = k - 1

\* signals emitted after the awaitMessage call
AfterCall == {k \in 1..Len(signals) : k > awaiter.at}
\* a signal that settles the awaited promise: an end, or a collect whose
\* message satisfies the call's filter
Hit(k) ==
  \/ signals[k].ch = "end"
  \/ signals[k].ch = "collect" /\ OneOff(awaiter.filter, signals[k].msg)
Settled == awaiter.state \in {"resolved", "rejected"}

\* C14: the awaited promise is pending exactly while no matching collect, no
\* end and no timeout has happened since the call; it resolves with the
\* message of the first matching collect signal after the call, rejects at
\* the first end signal or at the timeout, whichever of the three comes
\* first, and once settled it never changes.
C14_AwaitMessage ==
  /\ [](awaiter.state = "waiting" =>
          /\ \A k \in AfterCall : ~Hit(k)
          /\ awaiter.timeout \in {"none", "pending"}
          /\ awaiter.listening)
  /\ [](awaiter.state = "resolved" =>
          /\ awaiter.done \in AfterCall
          /\ signals[awaiter.done].ch = "collect"
          /\ signals[awaiter.done].msg = awaiter.msg
          /\ OneOff(awaiter.filter, awaiter.msg)
          /\ \A k \in AfterCall : k < awaiter.done => ~Hit(k)
          /\ awaiter.timeout # "fired")
  /\ [](awaiter.state = "rejected" =>
          \/ /\ awaiter.why = "ended"
             /\ awaiter.done \in AfterCall
             /\ signals[awaiter.done].ch = "end"
             /\ \A k \in AfterCall : k < awaiter.done => ~Hit(k)
             /\ awaiter.timeout # "fired"
          \/ /\ awaiter.why = "timeout"
             /\ awaiter.timeout = "fired"
             /\ \A k \in AfterCall : k <= awaiter.done => ~Hit(k))
  /\ [][Settled =>
          /\ awaiter'.state = awaiter.state
          /\ awaiter'.msg = awaiter.msg
          /\ awaiter'.why = awaiter.why]_vars

\* resolved by the second collect after the call, the first not matching
C14_Witness ==
  /\ awaiter.state = "resolved"
  /\ awaiter.timeout = "cleared"
  /\ \E k \in AfterCall :
       k < awaiter.done /\ signals[k].ch = "collect"

\* C15: the awaited promise never resolves with a message that was in the
\* collected mapping at the call, only with the message of a collect signal
\* emitted after the call; the call changes no collected entry, and the step
\* that resolves the promise changes the mapping only by the handler's own
\* insertion of that message.
C15_NoHistory ==
  /\ [](awaiter.state = "resolved" =>
          /\ awaiter.msg \notin awaiter.had
          /\ \E k \in AfterCall :
               signals[k].ch = "collect" /\ signals[k].msg = awaiter.msg)
  /\ [][(awaiter.state = "none" /\ awaiter'.state # "none")
        => collector' = collector]_vars
  /\ [][(awaiter.state = "waiting" /\ awaiter'.state = "resolved")
        => collector'.collected.items =
             CollectionSet(collector.collected.items, awaiter'.msg)]_vars

\* a matching message was already collected at the call
C15_Witness ==
  /\ awaiter.state = "resolved"
  /\ \E m \in awaiter.had : OneOff(awaiter.filter, m)

\* C16: the expiry of the awaitMessage timeout changes nothing of the
\* collector: ended, collected, its timers, its subscription, its own
\* subscribers and its signals are as before, pending evaluations included.
C16_AwaitTimeoutFrame ==
  [][(awaiter.timeout = "pending" /\ awaiter'.timeout = "fired")
     => UNCHANGED <<collector, timers, nTimers, subscribed, listeners,
                    signals, pending>>]_vars

\* after the timeout rejected the promise the collector collected a message
C16_Witness ==
  /\ awaiter.state = "rejected" /\ awaiter.why = "timeout"
  /\ \E k \in 1..Len(signals) :
       k > awaiter.done /\ signals[k].ch = "collect"
  /\ timers # {}

\* C17: with dispose true an ended collector has no subscriber on any
\* channel and emits no further signal; with dispose false the step that
\* ends the collector leaves its subscribers registered.
C17_Dispose ==
  /\ []((collector.dispose /\ collector.ended) => listeners = {})
  /\ [][(collector.dispose /\ collector.ended) => signals' = signals]_vars
  /\ [][(~collector.dispose /\ ~collector.ended /\ collector'.ended)
        => listeners' = listeners]_vars

\* C18: for an owner subscribed to collect and end: every message in the
\* collected mapping was delivered by a collect signal, the end of the
\* collector was delivered by an end signal with its reason, and every
\* message the filter accepts while the collector is live is delivered by a
\* collect signal in the step that completes its evaluation.
C18_NoSilentDrop ==
  /\ [](\A k \in 1..Len(Collected) :
          \E j \in CollectSignals :
            signals[j].msg.id = Collected[k].id /\ signals[j].heard)
  /\ [](collector.ended =>
          \E j \in EndSignals : signals[j].heard /\ signals[j].reason # "")
  /\ [][\A i \in 1..Len(pending) :
          (/\ ~collector.ended
           /\ pending[i].res = "pass"
           /\ pending' = RemoveAt(pending, i))
          => /\ Len(signals') > Len(signals)
             /\ signals'[Len(signals) + 1].ch = "collect"
             /\ signals'[Len(signals) + 1].msg = pending[i].msg
             /\ signals'[Len(signals) + 1].heard]_vars

MainTimers  == {t \in timers : Owns(collector, t)}
OtherTimers == {t \in timers : Owns(other.c, t)}
MainState   == <<collector, listeners, subscribed, signals, pending,
                 MainTimers>>
OtherState  == <<other, otherPending, OtherTimers>>

\* C19: of two collectors on the same chat, a resume, a timer expiry or a
\* stop() changes the fields, subscribers, subscription, signals, pending
\* evaluations and timers of one collector only; a messageCreate event,
\* which both handlers receive, changes neither collector's fields,
\* subscription or timers.
C19_Independent ==
  /\ [][nEvents' = nEvents
        => (MainState' = MainState \/ OtherState' = OtherState)]_vars
  /\ [][nEvents' # nEvents
        => /\ collector' = collector /\ subscribed' = subscribed
           /\ other'.c = other.c /\ other'.sub = other.sub
           /\ timers' = timers]_vars

\* the first collector has ended; the second is live with its timer and
\* subscription and has collected a message
C19_Witness ==
  /\ collector.ended /\ EndSignals # {}
  /\ ~other.c.ended /\ other.sub /\ OtherTimers # {}
  /\ Len(other.c.collected.items) >= 1

\* the messages whose messageCreate event the step raises
Raised(sn, n) == {sn[i] : i \in {k \in 1..Len(sn) : sn[k].ev = n}}

\* C20: a message of another chat, and a message of the target chat that
\* the filter rejects, change nothing: neither the step that raises it nor
\* the step that completes the filter's evaluation changes collected,
\* ended, the pending timers (the idle timer is neither cancelled nor
\* re-armed), the subscription or the subscribers, and no signal is emitted;
\* a message of another chat is not even evaluated.
C20_RejectedNoChange ==
  /\ [][(nEvents' # nEvents /\
         \A m \in Raised(seen', nEvents') :
           m.chatId # TargetChat
           \/ FilterResult(collector.filter, m) = "fail")
        => UNCHANGED <<collector, timers, nTimers, signals, subscribed,
                       listeners>>]_vars
  /\ [][(nEvents' # nEvents /\
         \A m \in Raised(seen', nEvents') : m.chatId # TargetChat)
        => UNCHANGED <<pending, evaluated>>]_vars
  /\ [][(\E i \in 1..Len(pending) :
           pending[i].res = "fail" /\ pending' = RemoveAt(pending, i))
        => UNCHANGED <<collector, timers, nTimers, signals, subscribed,
                       listeners>>]_vars

\* a rejected message and a message of another chat were handled by a live
\* collector whose first idle timer is still the pending one
C20_Witness ==
  /\ collector.filter \in ContentKinds /\ collector.idle
  /\ ~collector.ended /\ pending = <<>> /\ evaluated = 1
  /\ \E i \in TargetIds : seen[i].body = "hi"
  /\ \E i \in 1..Len(seen) : seen[i].chatId # TargetChat
  /\ signals = <<>>
  /\ \E t \in IdleTimers : t.h = collector.timeouts.idle /\ t.gen = 0

TimeTimers == {t \in timers : t.fn = "time"}

\* C23: a live collector is subscribed to messageCreate and has a pending
\* time timer iff time is set and a pending idle timer iff idle is set; no
\* timer is ever armed for a bound that is not set; a collector with no
\* time, idle or max never has a timer and ends only by an explicit stop.
C23_Construction ==
  /\ ~collector.ended =>
       /\ subscribed
       /\ (TimeTimers # {} <=> collector.time)
       /\ (IdleTimers # {} <=> collector.idle)
  /\ \A t \in timers :
       /\ t.fn = "time" => collector.time
       /\ t.fn = "idle" => collector.idle
  /\ (~collector.time /\ ~collector.idle /\ collector.max = 0) =>
       /\ timers = {}
       /\ EndReasons \subseteq UserReasons
       /\ collector.ended => nStops >= 1

\* without any bound the collector collected every message and is live
C23_Witness ==
  /\ ~collector.time /\ ~collector.idle /\ collector.max = 0
  /\ ~collector.ended /\ subscribed
  /\ nEvents = MaxMsgs /\ Len(Collected) >= 2

\* C24: when the message accepted is one whose id the collected mapping
\* already holds, the mapping keeps its size and order and the entry's value
\* becomes the new message; a collect signal is emitted all the same and the
\* step does not end the collector, so the collect signals can outnumber
\* the entries.
C24_Redelivery ==
  /\ [](NumOn(signals, "collect") >= Len(Collected))
  /\ [][\A i \in 1..Len(pending) :
          (/\ pending[i].res = "pass"
           /\ pending' = RemoveAt(pending, i)
           /\ ~collector.collected.isNull
           /\ IndexOf(Collected, pending[i].msg.id, 1) # 0)
          => /\ Len(collector'.collected.items) = Len(Collected)
             /\ collector'.collected.items =
                  [Collected EXCEPT ![IndexOf(Collected, pending[i].msg.id, 1)]
                                      = pending[i].msg]
             /\ NumOn(signals', "collect") = NumOn(signals, "collect") + 1
             /\ collector'.ended = collector.ended]_vars

\* a duplicate was collected by a collector with max set, which is live
C24_Witness ==
  /\ collector.max # 0 /\ ~collector.ended
  /\ Len(Collected) >= 1
  /\ NumOn(signals, "collect") > Len(Collected)
  /\ NumOn(signals, "collect") >= collector.max

\* C25: the one end signal carries the reason of the stop that ended the
\* collector: "time" only in a step in which the pending time timer expires,
\* "idle" only in a step in which the pending idle timer expires, "limit"
\* only in a step that completes an evaluation and leaves max entries,
\* "manual" or "cleanup" only in an explicit stop call; later causes never
\* change it.
C25_EndReason ==
  /\ [][(~collector.ended /\ collector'.ended) =>
          LET e == signals'[Len(signals')]
          IN  /\ e.ch = "end"
              /\ e.reason \in {"time", "idle", "limit", "manual", "cleanup"}
              /\ e.reason = "time" =>
                   /\ nStops' = nStops /\ pending' = pending
                   /\ \E t \in timers : t.h = collector.timeouts.time
              /\ e.reason = "idle" =>
                   /\ nStops' = nStops /\ pending' = pending
                   /\ \E t \in timers : t.h = collector.timeouts.idle
              /\ e.reason = "limit" =>
                   /\ nStops' = nStops /\ Len(pending') < Len(pending)
                   /\ collector.max # 0
                   /\ Size(collector'.collected) >= collector.max
              /\ e.reason \in {"manual", "cleanup"} => nStops' # nStops]_vars
  /\ [][collector.ended =>
          /\ EndReasons' = EndReasons
          /\ Cardinality(EndSignals') = 1]_vars

\* ended by cleanup with both timers set; a later stop('manual') ran
C25_Witness ==
  /\ collector.time /\ collector.idle
  /\ EndReasons = {"cleanup"}
  /\ nStops >= 2

\* C27: the collected mapping is initialised whenever the collector handles
\* a messageCreate event, completes a filter evaluation or runs the stop
\* that ends it, and an accepted message on a live collector is inserted.
C27_CollectedInitialised ==
  /\ [][(\/ nEvents' # nEvents /\ subscribed
         \/ Len(pending') < Len(pending)
         \/ ~collector.ended /\ collector'.ended)
        => ~collector.collected.isNull]_vars
  /\ [][\A i \in 1..Len(pending) :
          (/\ ~collector.ended /\ pending[i].res = "pass"
           /\ pending' = RemoveAt(pending, i))
          => \E k \in 1..Len(collector'.collected.items) :
               collector'.collected.items[k] = pending[i].msg]_vars

\* C28: in every state, ended or not, at most one idle timer is pending, it
\* is the one whose handle the collector holds and it was armed after the
\* latest collect signal; an idle expiry that ends the collector is the
\* expiry of that timer.
C28_OneIdleTimer ==
  /\ [](/\ Cardinality(IdleTimers) <= 1
         /\ \A t \in IdleTimers :
              /\ t.h = collector.timeouts.idle
              /\ t.gen = NumOn(signals, "collect"))
  /\ [][(/\ ~collector.ended /\ collector'.ended
         /\ signals'[Len(signals')].reason = "idle")
        => \E t \in IdleTimers :
             /\ t.gen = NumOn(signals, "collect")
             /\ t.h = collector.timeouts.idle
             /\ t \notin timers']_vars

\* two collects re-armed the idle timer twice; one is pending
C28_Witness ==
  /\ NumOn(signals, "collect") >= 2
  /\ ~collector.ended
  /\ \E t \in IdleTimers : t.gen = 2 /\ t.h >= 3

\* C29: once the awaited promise is settled, the call's collect and end
\* listeners are no longer registered and its timeout is no longer pending;
\* a promise that is pending on an ended collector has a pending timeout to
\* settle it.
C29_AwaitReleased ==
  /\ Settled => (~awaiter.listening /\ awaiter.timeout # "pending")
  /\ (awaiter.state = "waiting" /\ collector.ended)
       => awaiter.timeout = "pending"

\* the result of an accessor call differs from the previous one
Accessed == access' # access

\* C21: the accessors read the collected mapping and change nothing of the
\* collector; collector.filter(fn) is not answered by the acceptance
\* predicate and returns the collected entries that satisfy fn.
C21_ReadOnlyAccessors ==
  /\ [][Accessed => UNCHANGED <<collector, timers, nTimers, subscribed,
                                listeners, signals, pending>>]_vars
  /\ [][(Accessed /\ ~collector.collected.isNull /\ access'.op # "filter")
        => /\ access'.out = "value"
           /\ access'.val \in CollectionRead(Collected, access'.op,
                                             access'.fn)]_vars
  /\ [][(Accessed /\ access'.op = "filter")
        => /\ access'.out # "predicate"
           /\ ~collector.collected.isNull
              => /\ access'.out = "value"
                 /\ access'.val = CollectionFilter(Collected, access'.fn)]_vars

\* C22: on an ended collector array() gives the same contents before and
\* after a further stop(), and neither call fails.
C22_ArrayAcrossStop ==
  [][(collector.ended /\ nStops' = nStops + 1)
     => /\ Array(collector).out = "value"
        /\ Array(collector').out = "value"
        /\ Array(collector').val = Array(collector).val]_vars

\* the process() calls of the current processMessage run, in order
Calls == pipeline.calls

\* the modules the loop has passed that have a process function
Passed ==
  {i \in 1..Len(pipeline.modules) :
     /\ pipeline.modules[i] # "none"
     /\ i < pipeline.at \/ (pipeline.at = 0 /\ pipeline.runs > 0)}

\* every loaded module with a process function is called once, in load
\* order, whether or not an earlier one threw
InLoadOrder ==
  /\ {Calls[k].module : k \in 1..Len(Calls)} = Passed
  /\ \A j, k \in 1..Len(Calls) : j < k => Calls[j].module < Calls[k].module

\* a module receives the value the previous call returned
ReceivesReturned ==
  \A k \in 1..Len(Calls) - 1 :
    ~Calls[k].threw => Calls[k + 1].arg = Calls[k].ret

\* C26 as stated: modules run in load order, each receiving the value the
\* previous one returned; a throwing module does not stop the pipeline, and
\* the next module receives the message as it was before the failing call.
C26_Pipeline ==
  /\ InLoadOrder
  /\ ReceivesReturned
  /\ \A k \in 1..Len(Calls) - 1 :
       Calls[k].threw => Calls[k + 1].arg = Calls[k].arg

\* C26 amended: after a throwing module the next module receives the same
\* message object the failing module received, as the failing module left
\* it: the changes it made in place before throwing are kept.
C26_PipelineSameObject ==
  /\ InLoadOrder
  /\ ReceivesReturned
  /\ \A k \in 1..Len(Calls) - 1 :
       Calls[k].threw
       => /\ Calls[k + 1].arg.ref = Calls[k].arg.ref
          /\ Calls[k + 1].arg = Calls[k].left
          /\ Calls[k].arg.tags \subseteq Calls[k + 1].arg.tags
  /\ pipeline.at = 0 /\ pipeline.runs > 0 => pipeline.result = pipeline.message

C26_Witness ==
  \E k \in 1..Len(Calls) - 1 :
    /\ Calls[k].threw
    /\ Calls[k].left # Calls[k].arg
    /\ Calls[k + 1].arg = Calls[k].left

\* a collector that was created and has not ended
MainLive  == subscribed /\ ~collector.ended
OtherLive == other.sub /\ ~other.c.ended

\* the collector stored for a chat is this slot's
Stored(slot, c) == MapGet(activeCollectors, c.chat) = slot

\* the collector of a slot has just been created
Started ==
  {c \in {collector', other'.c} :
     \/ c = collector' /\ MainLive' /\ ~MainLive
     \/ c = other'.c /\ OtherLive' /\ ~OtherLive}

\* C30: ChatModule keeps at most one active collector per chat: .collect
\* creates one only when activeCollectors has no entry for the chat, the
\* stored collector has not ended, and a collector that has not ended is
\* the stored one (its entry goes when its end signal fires).
C30_OneActiveCollector ==
  /\ [](~(MainLive /\ OtherLive /\ collector.chat = other.c.chat))
  /\ [](\A i, j \in 1..Len(activeCollectors) :
          /\ activeCollectors[i] # EmptyEntry
          /\ activeCollectors[i].key = activeCollectors[j].key => i = j)
  /\ [](\A i \in 1..Len(activeCollectors) :
          \/ /\ activeCollectors[i].value = "main"
             /\ MainLive /\ collector.chat = activeCollectors[i].key
          \/ /\ activeCollectors[i].value = "other"
             /\ OtherLive /\ other.c.chat = activeCollectors[i].key)
  /\ [](MainLive => Stored("main", collector))
  /\ [](OtherLive => Stored("other", other.c))
  /\ [][\A c \in Started : ~MapHas(activeCollectors, c.chat)]_vars
  /\ [][\A k \in Len(signals) + 1..Len(signals') :
          signals'[k].ch = "end"
          => ~MapHas(activeCollectors', collector.chat)]_vars
  /\ [][\A k \in Len(other.sig) + 1..Len(other'.sig) :
          other'.sig[k].ch = "end"
          => ~MapHas(activeCollectors', other.c.chat)]_vars

C30_Witness ==
  /\ Stored("other", other.c)
  /\ OtherLive
  /\ other.c.chat = collector.chat
  /\ collector.ended
  /\ nHandled = MaxCommands

\* the end signals of a collector that its end listener heard
HeardEnds(sig) == {k \in 1..Len(sig) : sig[k].ch = "end" /\ sig[k].heard}

\* the collector of a slot and its signals
SlotOf(slot)    == IF slot = "main" THEN collector ELSE other.c
SlotSignals(slot) == IF slot = "main" THEN signals ELSE other.sig
\* the same after the step
SlotAfter(slot)    == IF slot = "main" THEN collector' ELSE other'.c
SignalsAfter(slot) == IF slot = "main" THEN signals' ELSE other'.sig

\* C31: .stopcollect in a chat with an active collector ends that collector
\* with reason "manual", its end listener runs once and the chat's entry is
\* gone; a .collect that follows in the chat starts a new collector;
\* .stopcollect in a chat without an active collector changes nothing.
C31_StopCollect ==
  /\ [][\A ch \in Chats :
          (HandleStopCollect(ch) /\ MapHas(activeCollectors, ch))
          => LET slot == MapGet(activeCollectors, ch)
             IN  /\ ~SlotOf(slot).ended /\ SlotAfter(slot).ended
                 /\ HeardEnds(SlotSignals(slot)) = {}
                 /\ Cardinality(HeardEnds(SignalsAfter(slot))) = 1
                 /\ \A k \in HeardEnds(SignalsAfter(slot)) :
                      SignalsAfter(slot)[k].reason = "manual"
                 /\ ~MapHas(activeCollectors', ch)]_vars
  /\ [][\A ch \in Chats :
          (HandleStopCollect(ch) /\ ~MapHas(activeCollectors, ch))
          => UNCHANGED <<collector, listeners, subscribed, signals, timers,
                         nTimers, pending, other, otherPending,
                         activeCollectors>>]_vars
  /\ [][\A arg \in 1..MaxMax : \A i \in 1..Len(seen) :
          (HandleCollect(arg, seen[i])
           /\ ~MapHas(activeCollectors, seen[i].chatId))
          => /\ Cardinality(Started) = 1
             /\ \A c \in Started : c.chat = seen[i].chatId /\ ~c.ended
             /\ MapHas(activeCollectors', seen[i].chatId)]_vars
  /\ [](\A slot \in {"main", "other"} :
          Cardinality(HeardEnds(SlotSignals(slot))) <= 1)

\* a collector was stopped by .stopcollect and a later .collect started a
\* new one in the same chat
C31_Witness ==
  /\ collector.ended
  /\ \E k \in HeardEnds(signals) : signals[k].reason = "manual"
  /\ OtherLive /\ other.c.chat = collector.chat
  /\ Stored("other", other.c)

\* C32: cleanup() ends every stored collector with reason "cleanup", none
\* being skipped, empties activeCollectors and leaves none of those
\* collectors subscribed to messageCreate.
C32_Cleanup ==
  [][Cleanup
     => /\ activeCollectors' = <<>>
        /\ \A i \in 1..Len(activeCollectors) :
             LET slot == activeCollectors[i].value
             IN  /\ SlotAfter(slot).ended
                 /\ SignalsAfter(slot) # <<>>
                 /\ SignalsAfter(slot)[Len(SignalsAfter(slot))].ch = "end"
                 /\ SignalsAfter(slot)[Len(SignalsAfter(slot))].reason
                      = "cleanup"
                 /\ IF slot = "main" THEN ~subscribed' ELSE ~other'.sub
                 /\ \A t \in timers' : ~Owns(SlotAfter(slot), t)]_vars

\* cleanup() ran with a collector stored for each of two chats
C32_Witness ==
  /\ nHandled = MaxCommands + 1
  /\ collector.ended /\ other.c.ended
  /\ collector.chat # other.c.chat
  /\ \E k \in HeardEnds(signals) : signals[k].reason = "cleanup"
  /\ \E k \in HeardEnds(other.sig) : other.sig[k].reason = "cleanup"

\* C33: .collect starts a collector only for a first argument that is an
\* integer from 1 to 100, bounded by that max and by a time limit; for any
\* other first argument no collector is created and no entry is added.
C33_CollectArgument ==
  [][\A arg \in CollectArgs : \A i \in 1..Len(seen) :
       HandleCollect(arg, seen[i])
       => IF arg \in 1..MaxMax
          THEN \A c \in Started :
                 /\ c.max = arg /\ c.time
                 /\ \E t \in timers' : t.h = c.timeouts.time /\ t.fn = "time"
          ELSE /\ Started = {}
               /\ activeCollectors' = activeCollectors]_vars

\* the keys of the command registry
RegistryKeys(p) ==
  {p.registry.entries[k].key : k \in 1..Len(p.registry.entries)}

\* the command names the loaded modules define, as written
Defined(p) ==
  UNION {{p.commands[i][j] : j \in 1..Len(p.commands[i])} :
           i \in 1..Len(p.commands)}

\* the modules that define a command whose lower-cased name is key
Definers(p, key) ==
  {i \in 1..Len(p.commands) :
     \E j \in 1..Len(p.commands[i]) : Lower(p.commands[i][j]) = key}

C35_ManagerCleanup ==
  /\ [](pipeline.cleaning > 0
        => /\ {pipeline.cleaned[k].module : k \in 1..Len(pipeline.cleaned)}
                = {i \in 1..Len(pipeline.modules) :
                     i < pipeline.cleaning /\ pipeline.cleanups[i] # "none"}
           /\ \A j, k \in 1..Len(pipeline.cleaned) :
                j < k => pipeline.cleaned[j].module < pipeline.cleaned[k].module)
  /\ [][CleanupDone
        => /\ {pipeline.cleaned[k].module : k \in 1..Len(pipeline.cleaned)}
                = {i \in 1..Len(pipeline.modules) :
                     pipeline.cleanups[i] # "none"}
           /\ pipeline'.modules = <<>>
           /\ pipeline'.registry.entries = <<>>]_vars

\* a cleanup ran to its end although the first module's cleanup threw
C35_Witness ==
  /\ pipeline.cleaning = 0
  /\ pipeline.modules = <<>>
  /\ Len(pipeline.cleaned) >= 2
  /\ pipeline.cleaned[1].threw
  /\ ~pipeline.registry.isNull

\* ------------------------------------------------------ InstagramClient
\* what no operation of the client or of a Chat touches
outside ==
  <<collector, listeners, subscribed, timers, nTimers, pending, initPending,
    signals, seen, budget, nEvents, evaluated, nStops, nInits, syncEmits,
    awaiter, other, otherPending, access, activeCollectors, nHandled,
    pipeline>>

EventKinds == {"realtime", "fbns"}

\* handleRealtimeReceive(topic, payload) and handleFbnsReceive(data) on
\* client record c, for the event with arrival number id: while ready is
\* false the event is pushed on _eventsToReplay behind its type tag,
\* otherwise it is processed (rawRealtime / rawFbns is emitted); the trace
\* of processed events notes how many events had arrived by then
HandleReceive(c, kind, id) ==
  IF ~c.ready
  THEN [c EXCEPT !.eventsToReplay = Append(@, <<kind, id>>)]
  ELSE [c EXCEPT !.processed = Append(@, [kind |-> kind, id |-> id,
                                          at |-> c.nArrived])]

\* the forEach of _replayEvents from index i on: event.shift() takes the
\* type tag and the handler of that type gets the rest
RECURSIVE ReplayFrom(_, _, _)
ReplayFrom(c, queue, i) ==
  IF i > Len(queue) THEN c
  ELSE LET eventType == Head(queue[i])
           event     == Tail(queue[i])
       IN  ReplayFrom(IF eventType \in EventKinds
                      THEN HandleReceive(c, eventType, event[1])
                      ELSE c,
                      queue, i + 1)

\* _replayEvents without its last statement
ReplayEvents_KeepsQueue(c) == ReplayFrom(c, c.eventsToReplay, 1)

\* _replayEvents(): every queued event in array order, then
\* this._eventsToReplay = []
ReplayEvents(c) ==
  [ReplayFrom(c, c.eventsToReplay, 1) EXCEPT !.eventsToReplay = <<>>]

\* login() up to its await of ig.realtime.connect: the session is loaded
\* and _setupRealtimeHandlers() has attached the receive, error and close
\* handlers
Login ==
  /\ client.login = "none"
  /\ client.nLogins < MaxLogins
  /\ client' = [client EXCEPT !.login = "realtime", !.nLogins = @ + 1,
                              !.handlers = @ \cup {"realtime"}]
  /\ UNCHANGED outside

\* login(): realtime.connect resolved; enableFbns is set, the FBNS handlers
\* are attached and ig.fbns.connect is awaited
LoginRealtimeConnected ==
  /\ client.login = "realtime"
  /\ client' = [client EXCEPT !.login = "fbns",
                              !.handlers = @ \cup {"fbns"}]
  /\ UNCHANGED outside

\* login(): the FBNS connect resolved: ready and running are set,
\* _retryCount = 0, 'ready' is emitted and the queued events are replayed
LoginReady ==
  /\ client.login = "fbns"
  /\ client' = ReplayEvents([client EXCEPT !.login = "none",
                                           !.ready = TRUE,
                                           !.running = TRUE,
                                           !.retryCount = 0])
  /\ UNCHANGED outside

\* login(): one of the awaited connects rejected; the catch logs and
\* rethrows
LoginFails ==
  /\ client.login \in {"realtime", "fbns"}
  /\ client' = [client EXCEPT !.login = "none"]
  /\ UNCHANGED outside

\* logout(): running and ready are cleared before the disconnects
Logout ==
  /\ client.ready \/ client.running
  /\ client' = [client EXCEPT !.ready = FALSE, !.running = FALSE]
  /\ UNCHANGED outside

\* a realtime 'receive' or an FBNS push reaches the client through the
\* handler attached for it
Receive(kind) ==
  /\ kind \in client.handlers
  /\ client.nArrived < MaxEvents
  /\ client' = HandleReceive([client EXCEPT !.nArrived = @ + 1],
                             kind, client.nArrived + 1)
  /\ UNCHANGED outside

Min(a, b) == IF a < b THEN a ELSE b

\* the delay computed by _attemptReconnect
ReconnectDelay(retryCount) == Min(1000 * 2 ^ retryCount, 30000)

\* _attemptReconnect(): _retryCount++, then setTimeout(reconnect, delay)
AttemptReconnect(c) ==
  LET n == c.retryCount + 1
  IN  [c EXCEPT !.retryCount = n,
                !.reconnects = Append(@, ReconnectDelay(n))]

\* the realtime 'error' handler
RealtimeError ==
  /\ "realtime" \in client.handlers
  /\ client.nDrops < MaxDrops
  /\ LET c == [client EXCEPT !.nDrops = @ + 1]
     IN  client' = IF c.autoReconnect /\ c.retryCount < c.maxRetries
                   THEN AttemptReconnect(c)
                   ELSE c
  /\ UNCHANGED outside

\* the realtime 'close' handler
RealtimeClose ==
  /\ "realtime" \in client.handlers
  /\ client.nDrops < MaxDrops
  /\ LET c == [client EXCEPT !.nDrops = @ + 1]
     IN  client' = IF c.running /\ c.autoReconnect
                   THEN AttemptReconnect(c)
                   ELSE c
  /\ UNCHANGED outside

\* the timer callback of _attemptReconnect: realtime.connect resolves
\* (ok) and _retryCount = 0, or it rejects and the count is kept
Reconnect(i, ok) ==
  /\ i \in 1..Len(client.reconnects)
  /\ LET left == [k \in 1..(Len(client.reconnects) - 1) |->
                    client.reconnects[IF k < i THEN k ELSE k + 1]]
     IN  client' = [client EXCEPT !.reconnects = left,
                                  !.retryCount = IF ok THEN 0 ELSE @]
  /\ UNCHANGED outside

\* the client after its constructor
ClientInit == PipeInit

ClientNext ==
  \/ Login
  \/ LoginRealtimeConnected
  \/ LoginReady
  \/ LoginFails
  \/ Logout
  \/ \E kind \in EventKinds : Receive(kind)
  \/ RealtimeError
  \/ RealtimeClose
  \/ \E i \in 1..MaxDrops : \E ok \in BOOLEAN : Reconnect(i, ok)

ClientSpec == ClientInit /\ [][ClientNext]_vars

\* the queued events as the trace entries their replay gives
Replayed(c) ==
  [i \in 1..Len(c.eventsToReplay) |->
     [kind |-> c.eventsToReplay[i][1], id |-> c.eventsToReplay[i][2],
      at |-> c.nArrived]]

\* arrival numbers of a trace or of the queue
ProcessedIds(c) == {c.processed[i].id : i \in 1..Len(c.processed)}
QueuedIds(c)    == {c.eventsToReplay[i][2] : i \in 1..Len(c.eventsToReplay)}

ConnectSucceeded ==
  \/ client.login = "fbns" /\ client.ready'
  \/ Len(client.reconnects') < Len(client.reconnects)

\* C37: over any sequence of realtime error and close events _retryCount
\* stays at or below options.maxRetries, it returns to 0 only in a step
\* where a connect succeeded, and every reconnect delay is
\* min(1000 * 2^retryCount, 30000), so at most 30000 ms.
C37_RetryBound ==
  [][ /\ client.retryCount' <= client.maxRetries
      /\ (client.retryCount # 0 /\ client.retryCount' = 0
            => ConnectSucceeded)
      /\ (Len(client.reconnects') > Len(client.reconnects)
            => LET delay == client.reconnects'[Len(client.reconnects')]
               IN  /\ delay = Min(1000 * 2 ^ client.retryCount', 30000)
                   /\ delay <= 30000)
    ]_vars

\* ------------------------------------------------------------ Chat typing
\* startTyping() up to its await of indicateActivity: nothing when typing
\* is set, otherwise typing = true and the call is suspended
StartTyping ==
  /\ client.chat.nTyping < MaxTyping
  /\ client' = IF client.chat.typing
               THEN [client EXCEPT !.chat.nTyping = @ + 1]
               ELSE [client EXCEPT !.chat.nTyping = @ + 1,
                                   !.chat.typing = TRUE,
                                   !.chat.starts = @ + 1]
  /\ UNCHANGED outside

\* startTyping() after the await: setTimeout(() => this.stopTyping(),
\* duration) into _stopTypingTimeout and setInterval(...) into
\* _keepTypingAliveInterval, whatever typing is by now
StartTypingResumes ==
  /\ client.chat.starts > 0
  /\ LET t == client.chat.nHandles + 1
         i == client.chat.nHandles + 2
     IN  client' = [client EXCEPT !.chat.starts = @ - 1,
                                  !.chat.nHandles = i,
                                  !.chat.stopTypingTimeout = t,
                                  !.chat.timeouts = @ \cup {t},
                                  !.chat.keepTypingAliveInterval = i,
                                  !.chat.intervals = @ \cup {i}]
  /\ UNCHANGED outside

\* startTyping(): the awaited indicateActivity rejected
StartTypingRejects ==
  /\ client.chat.starts > 0
  /\ client' = [client EXCEPT !.chat.starts = @ - 1]
  /\ UNCHANGED outside

\* stopTyping() on chat record ch, up to its await
StopTypingOn(ch) ==
  IF ~ch.typing THEN ch
  ELSE [ch EXCEPT !.typing = FALSE,
                  !.timeouts = @ \ {ch.stopTypingTimeout},
                  !.stopTypingTimeout = 0,
                  !.intervals = @ \ {ch.keepTypingAliveInterval},
                  !.keepTypingAliveInterval = 0]

\* stopTyping() called by the owner
StopTyping ==
  /\ client.chat.typing
  /\ client' = [client EXCEPT !.chat = StopTypingOn(@)]
  /\ UNCHANGED outside

\* the timeout of startTyping fires: () => this.stopTyping()
StopTypingTimeout(h) ==
  /\ h \in client.chat.timeouts
  /\ client' = [client EXCEPT
                  !.chat = StopTypingOn([@ EXCEPT !.timeouts = @ \ {h}])]
  /\ UNCHANGED outside

\* the interval of startTyping fires: _keepTypingAlive() indicates
\* activity while typing, otherwise clears the interval the field names
KeepTypingAlive(h) ==
  /\ h \in client.chat.intervals
  /\ client' = IF client.chat.typing
                  \/ client.chat.keepTypingAliveInterval = 0
               THEN client
               ELSE [client EXCEPT
                       !.chat.intervals =
                          @ \ {client.chat.keepTypingAliveInterval}]
  /\ UNCHANGED outside

TypingNext ==
  \/ StartTyping
  \/ StartTypingResumes
  \/ StartTypingRejects
  \/ StopTyping
  \/ \E h \in 1..(2 * MaxTyping) : StopTypingTimeout(h)
  \/ \E h \in 1..(2 * MaxTyping) : KeepTypingAlive(h)

TypingSpec == ClientInit /\ [][TypingNext]_vars

\* C38: for a Chat, whenever typing is false neither the stop-typing
\* timeout nor the keep-alive interval is armed, and while typing is true
\* at most one of each is armed.
C38_TypingTimers ==
  /\ ~client.chat.typing
       => client.chat.timeouts = {} /\ client.chat.intervals = {}
  /\ client.chat.typing
       => /\ Cardinality(client.chat.timeouts) <= 1
          /\ Cardinality(client.chat.intervals) <= 1

\* ------------------------------------------------------ Chat.sendMessage
\* the item id the server gives to the k-th broadcast of the chat, and the
\* id of a message somebody else sent
ItemId(k)   == MaxSends + k
ForeignItem == 0

\* resolve(message) of the promise of send k, called from the place `by`
Resolve(ch, k, id, by) ==
  [ch EXCEPT !.sends[k].resolves = Append(@, [message |-> id, by |-> by])]

\* the then-callback of sendMessage without its `messages.has` test
Confirmed_NoHasCheck(ch, k) ==
  [ch EXCEPT !.sends[k].state = "confirmed",
             !.sentMessagePromises = @ \cup {<<ItemId(k), k>>}]

\* the then-callback of sendMessage for send k: the resolve function is
\* stored under the item id; when chat.messages already has the id, the
\* entry is deleted and the promise resolved with the cached Message
Confirmed(ch, k) ==
  LET stored == [ch EXCEPT !.sends[k].state = "confirmed",
                           !.sentMessagePromises = @ \cup {<<ItemId(k), k>>}]
  IN  IF ItemId(k) \in ch.messages
      THEN Resolve([stored EXCEPT
                      !.sentMessagePromises = @ \ {<<ItemId(k), k>>}],
                   k, ItemId(k), "confirm")
      ELSE stored

\* _resolveSentMessage(messageId, message)
ResolveSentMessage(ch, id) ==
  LET entries == {e \in ch.sentMessagePromises : e[1] = id}
  IN  IF entries = {} THEN ch
      ELSE LET e == CHOOSE x \in entries : TRUE
           IN  Resolve([ch EXCEPT !.sentMessagePromises = @ \ {e}],
                       e[2], id, "create")

\* sendMessage(content): the broadcast is issued and the promise returned
SendMessage ==
  /\ Len(client.chat.sends) < MaxSends
  /\ client' = [client EXCEPT
                  !.chat.sends = Append(@, [state |-> "broadcasting",
                                            resolves |-> <<>>])]
  /\ UNCHANGED outside

\* the broadcast of send k is confirmed with its item id
BroadcastConfirms(k) ==
  /\ k \in 1..Len(client.chat.sends)
  /\ client.chat.sends[k].state = "broadcasting"
  /\ client' = [client EXCEPT !.chat = Confirmed(@, k)]
  /\ UNCHANGED outside

\* the broadcast of send k fails: .catch(reject)
BroadcastRejects(k) ==
  /\ k \in 1..Len(client.chat.sends)
  /\ client.chat.sends[k].state = "broadcasting"
  /\ client' = [client EXCEPT !.chat.sends[k].state = "rejected"]
  /\ UNCHANGED outside

\* _handleNewMessage for a message of the chat: the Message constructor
\* ends with _handleSentMessagePromise(), then chat.messages.set(id, message)
CreateMessage(id) ==
  /\ client.chat.created < MaxCreates
  /\ LET ch == IF \E e \in client.chat.sentMessagePromises : e[1] = id
               THEN ResolveSentMessage(client.chat, id)
               ELSE client.chat
     IN  client' = [client EXCEPT
                      !.chat = [ch EXCEPT !.created = @ + 1,
                                          !.messages = @ \cup {id}]]
  /\ UNCHANGED outside

SendNext ==
  \/ SendMessage
  \/ \E k \in 1..MaxSends : BroadcastConfirms(k)
  \/ \E k \in 1..MaxSends : BroadcastRejects(k)
  \/ \E k \in 1..Len(client.chat.sends) : CreateMessage(ItemId(k))
  \/ CreateMessage(ForeignItem)

SendSpec == ClientInit /\ [][SendNext]_vars

\* the promise of send k has an entry in _sentMessagePromises
HasEntry(k) == \E e \in client.chat.sentMessagePromises : e[1] = ItemId(k)

\* C39: the promise of a sendMessage is resolved at most once, and always
\* with the Message whose id is the item id the broadcast confirmed; once
\* the broadcast is confirmed and that Message was created, in either
\* order, it is resolved and _sentMessagePromises has no entry for the id;
\* until then the entry waits.
C39_SentMessage ==
  \A k \in 1..Len(client.chat.sends) :
    LET s == client.chat.sends[k]
    IN  /\ Len(s.resolves) <= 1
        /\ \A i \in 1..Len(s.resolves) : s.resolves[i].message = ItemId(k)
        /\ s.resolves # <<>> => s.state = "confirmed" /\ ~HasEntry(k)
        /\ s.state = "confirmed" /\ ItemId(k) \in client.chat.messages
             => Len(s.resolves) = 1
        /\ s.state = "confirmed" /\ ItemId(k) \notin client.chat.messages
             => s.resolves = <<>> /\ HasEntry(k)
        /\ s.state # "confirmed" => ~HasEntry(k)

\* one promise resolved by the confirmation (the Message came first), one
\* by the creation of the Message (the confirmation came first)
C39_Witness ==
  /\ Len(client.chat.sends) = MaxSends
  /\ \E k, l \in 1..MaxSends :
       /\ client.chat.sends[k].resolves
            = <<[message |-> ItemId(k), by |-> "confirm"]>>
       /\ client.chat.sends[l].resolves
            = <<[message |-> ItemId(l), by |-> "create"]>>
  /\ client.chat.sentMessagePromises = {}

====
